---- MODULE Spec2Model ----
(***************************************************************************)
(* Website performance analyser: the job registry of backend/app/main.py   *)
(* and the LangGraph workflow of backend/app/langgraph_workflow.py.        *)
(*                                                                         *)
(* Python values are modelled as follows.  A dict that may be empty        *)
(* ({} / None / Optional) is a sequence of length 0 or 1.  An error string *)
(* is a record [kind, url] (the f-string prefix and the URL it embeds); a   *)
(* joined string is the sequence of its parts.                             *)
(*                                                                         *)
(* Spec follows one job, its run and its readers; SpecCancel one job and   *)
(* the position of its run when the record is deleted; SpecJobs two jobs   *)
(* run concurrently; SpecCalc single calls of the functions of             *)
(* backend/app/agents/analysis_agent.py; SpecLive one job whose run is     *)
(* resumed whenever the call it awaits has finished.                       *)
(***************************************************************************)
EXTENDS Integers, Sequences, FiniteSets, TLC

\* URLs a request may name as competitors.  URLs are opaque strings that the
\* code only compares for equality, so every request is, up to renaming, one
\* whose mainUrl is "a"; competitors may repeat and may equal the main URL.
Urls == {"a", "b", "c"}
MainUrls == {"a"}

\* The uuid4 values the server issues in one behaviour.
JobIds == {"j1", "j2"}

\* The job that Spec and SpecCancel follow.
OneJob == {"j1"}

\* Longest competitor list of a request.
MaxCompetitors == 2

\* Most collaborator calls (capture, screenshot, analysis, report) of one
\* behaviour that do not succeed.
MaxFaults == 2
\* the competitor lists of the jobs that run concurrently
ConcurrentCompetitors == {<<>>, <<"b">>}

NoUrl == "-"

VARIABLES
    aliased,    \* does the graph runtime hand a node the channel's own list object?
    jobs,       \* main.py: jobs, the in-memory registry (a dict keyed by job id)
    issued,     \* job ids already returned by start_analysis
    pc,         \* per job: position of the background task run_analysis
    state,      \* per job: the AnalysisState channels of the running graph
    executed,   \* per job: the nodes that have run, in order (history)
    outs,       \* per job: per-URL outcomes the collaborators produced (history)
    faults,     \* collaborator calls that did not succeed so far
    lastPoll,   \* per job: the last answer of get_status (0 or 1 element)
    cancelledAt, \* per job: where the run stood when its record was deleted (history)
    calc        \* the last call of a function of AnalysisAgent: arguments and result

vars == <<aliased, jobs, issued, pc, state, executed, outs, faults, lastPoll,
          cancelledAt, calc>>

----------------------------------------------------------------------------
\* Generic helpers

Range(s) == {s[i] : i \in 1..Len(s)}

IsPrefix(s, t) == Len(s) <= Len(t) /\ SubSeq(t, 1, Len(s)) = s

SeqsUpTo(S, n) == UNION {[1..k -> S] : k \in 0..n}

NonOk(o) == Cardinality({i \in 1..Len(o) : o[i] # "ok"})

----------------------------------------------------------------------------
\* The workflow graph

\* Outcome of one agent.analyze(url) / agent.capture(url, job_id) call:
\* a success result, a failure-tagged result (success = False), or an
\* exception that escapes the agent.
Outcomes == {"ok", "fail", "raise"}

\* nodes added by create_analysis_graph, in the order they are added
Nodes == <<"initialize", "lighthouse", "capture_screenshots", "analysis", "report">>

\* a plausible slip: the screenshot edge left out while rewiring the graph
EdgeSkipsScreenshots(n) ==
    CASE n = "initialize" -> "lighthouse"
      [] n = "lighthouse" -> "analysis"
      [] n = "capture_screenshots" -> "analysis"
      [] n = "analysis" -> "report"
      [] n = "report" -> "END"

\* workflow.add_edge(...) of create_analysis_graph
Edge(n) ==
    CASE n = "initialize" -> "lighthouse"
      [] n = "lighthouse" -> "capture_screenshots"
      [] n = "capture_screenshots" -> "analysis"
      [] n = "analysis" -> "report"
      [] n = "report" -> "END"

\* workflow.set_entry_point("initialize")
EntryPoint == "initialize"

\* a reducer that returns only what the update adds beyond the committed list
add_drops_committed(old, upd) ==
    IF Len(upd) > Len(old) THEN SubSeq(upd, Len(old) + 1, Len(upd)) ELSE <<>>

\* operator.add, the reducer of the Annotated list fields of AnalysisState
add(old, upd) == old \o upd

\* AnalysisState: how the value a node returns is merged into the channels.
\* A node returns the whole state dict, so every key is written: the list
\* fields declared Annotated[..., operator.add] are reduced with add, the
\* others take the returned value.  When the runtime passes the channel's own
\* list to the node (aliased), the node's in-place errors.append has already
\* changed the channel by the time the returned list is added to it.
\* the element of a set of one element; { e(x) : x \in {v} } names v once,
\* so that v is computed once however often e uses it
Only(S) == CHOOSE x \in S : TRUE

AnalysisState(ch, returned) ==
    Only({LET cur == IF aliased THEN [ch EXCEPT !.errors = ret.errors] ELSE ch
          IN  [ret EXCEPT
                !.lighthouse_results  = add(cur.lighthouse_results, ret.lighthouse_results),
                !.webpagetest_results = add(cur.webpagetest_results, ret.webpagetest_results),
                !.gtmetrix_results    = add(cur.gtmetrix_results, ret.gtmetrix_results),
                !.screenshots         = add(cur.screenshots, ret.screenshots),
                !.errors              = add(cur.errors, ret.errors)] :
          ret \in {returned}})

\* state of a task that has not been submitted
BlankState ==
    [job_id |-> "", main_url |-> NoUrl, competitor_urls |-> <<>>,
     lighthouse_results |-> <<>>, webpagetest_results |-> <<>>,
     gtmetrix_results |-> <<>>, screenshots |-> <<>>,
     aggregated_metrics |-> <<>>, recommendations |-> <<>>, pdf_data |-> <<>>,
     status |-> "", progress |-> 0, errors |-> <<>>]

\* initial_state of run_analysis; the reducer channels it does not name
\* start as the empty list
initial_state(j, main_url, competitor_urls) ==
    [BlankState EXCEPT
        !.job_id = j, !.main_url = main_url, !.competitor_urls = competitor_urls,
        !.aggregated_metrics = <<>>, !.recommendations = <<>>, !.pdf_data = <<>>,
        !.status = "running", !.progress = 10]

all_urls(st) == <<st.main_url>> \o st.competitor_urls

\* the per-URL loop of a node abandoned at the first exception
RECURSIVE LoopResultsAbort(_, _, _, _)
LoopResultsAbort(urls, main, o, i) ==
    IF i > Len(urls) \/ o[i] = "raise" THEN <<>>
    ELSE <<[url |-> urls[i], is_main |-> urls[i] = main,
            data |-> [success |-> o[i] = "ok", url |-> urls[i]]]>>
         \o LoopResultsAbort(urls, main, o, i + 1)

\* `results` of lighthouse_node / screenshot_node: one entry per URL whose
\* call returned (the timestamp is left out)
RECURSIVE LoopResults(_, _, _, _)
LoopResults(urls, main, o, i) ==
    IF i > Len(urls) THEN <<>>
    ELSE (IF o[i] = "raise" THEN <<>>
          ELSE <<[url |-> urls[i], is_main |-> urls[i] = main,
                  data |-> [success |-> o[i] = "ok", url |-> urls[i]]]>>)
         \o LoopResults(urls, main, o, i + 1)

\* the entries the except branch of the per-URL loop appends to state['errors']
RECURSIVE LoopErrors(_, _, _, _)
LoopErrors(kind, urls, o, i) ==
    IF i > Len(urls) THEN <<>>
    ELSE (IF o[i] = "raise" THEN <<[kind |-> kind, url |-> urls[i]]>> ELSE <<>>)
         \o LoopErrors(kind, urls, o, i + 1)

initialize_node(st) ==
    AnalysisState(st, [st EXCEPT !.status = "running", !.progress = 5])

lighthouse_node(st, o) ==
    AnalysisState(st,
        [st EXCEPT
            !.errors = st.errors \o LoopErrors("Lighthouse error", all_urls(st), o, 1),
            !.lighthouse_results = LoopResults(all_urls(st), st.main_url, o, 1),
            !.progress = 25])

screenshot_node(st, o) ==
    AnalysisState(st,
        [st EXCEPT
            !.errors = st.errors \o LoopErrors("Screenshot error", all_urls(st), o, 1),
            !.screenshots = LoopResults(all_urls(st), st.main_url, o, 1),
            !.progress = 70])

----------------------------------------------------------------------------
\* agents/analysis_agent.py
\*
\* A Python dict is a function on the set of its keys, a value that may be
\* None a sequence of no or one element, a formatted string the sequence of
\* its pieces.

EmptyDict == [k \in {} |-> 0]

\* d.get(k, default)
Get(d, k, default) == IF k \in DOMAIN d THEN d[k] ELSE default

\* d[k] = v
Put(d, k, v) == [x \in DOMAIN d \cup {k} |-> IF x = k THEN v ELSE d[x]]

RECURSIVE sum(_)
sum(values) == IF values = <<>> THEN 0 ELSE values[1] + sum(Tail(values))

\* sum(values) / len(values); the values drawn below make every such
\* quotient a whole number
Mean(values) == sum(values) \div Len(values)

\* str(n) of a natural number: its decimal digits
RECURSIVE str(_)
str(n) ==
    LET digit(d) == <<"0", "1", "2", "3", "4", "5", "6", "7", "8", "9">>[d + 1]
    IN  IF n < 10 THEN <<digit(n)>> ELSE str(n \div 10) \o <<digit(n % 10)>>

_calculate_averages(metrics) ==
    LET has(tool) == tool \in DOMAIN metrics
        \* `tool in metrics and metrics[tool].get(key)`: None and 0 are falsy
        value(tool, key) ==
            IF has(tool) /\ Get(metrics[tool], key, 0) # 0
            THEN <<metrics[tool][key]>> ELSE <<>>
        fcp_values == value("lighthouse", "fcp")
                         \o value("webpagetest", "firstContentfulPaint")
        perf_scores == value("lighthouse", "performance_score")
                          \o value("webpagetest", "performance_score")
                          \o value("gtmetrix", "performanceScore")
        a1 == IF fcp_values # <<>>
              THEN Put(EmptyDict, "avg_fcp", Mean(fcp_values)) ELSE EmptyDict
        a2 == IF has("lighthouse")
              THEN Put(a1, "avg_lcp", Get(metrics["lighthouse"], "lcp", 0)) ELSE a1
    IN  IF perf_scores # <<>>
        THEN Put(a2, "avg_performance_score", Mean(perf_scores)) ELSE a2

\* the inclusion tests of _aggregate_single_site
lighthouse_included(lighthouse) ==
    lighthouse # <<>> /\ Get(lighthouse[1].data, "success", FALSE)

\* an inclusion test that does not look at the fallback flag
tool_included_ignoring_fallback(sample) ==
    sample # <<>> /\ Get(sample[1].data, "success", FALSE)

tool_included(sample) ==
    /\ sample # <<>>
    /\ Get(sample[1].data, "success", FALSE)
    /\ ~Get(sample[1].data, "fallback", FALSE)

_aggregate_single_site(lighthouse, webpagetest, gtmetrix) ==
    LET m1 == IF lighthouse_included(lighthouse)
              THEN LET lh_metrics == Get(lighthouse[1].data, "metrics", EmptyDict)
                       lh_scores == Get(lighthouse[1].data, "scores", EmptyDict)
                   IN  Put(EmptyDict, "lighthouse",
                           [fcp |-> Get(lh_metrics, "fcp", 0),
                            lcp |-> Get(lh_metrics, "lcp", 0),
                            cls |-> Get(lh_metrics, "cls", 0),
                            ttfb |-> Get(lh_metrics, "ttfb", 0),
                            performance_score |-> Get(lh_scores, "performance_score", 0)])
              ELSE EmptyDict
        m2 == IF tool_included(webpagetest)
              THEN LET wpt_metrics == Get(webpagetest[1].data, "metrics", EmptyDict)
                       wpt_scores == Get(webpagetest[1].data, "scores", EmptyDict)
                   IN  Put(m1, "webpagetest",
                           [loadTime |-> Get(wpt_metrics, "loadTime", 0),
                            TTFB |-> Get(wpt_metrics, "TTFB", 0),
                            speedIndex |-> Get(wpt_metrics, "speedIndex", 0),
                            firstContentfulPaint |-> Get(wpt_metrics, "firstContentfulPaint", 0),
                            performance_score |-> Get(wpt_scores, "performance", 0)])
              ELSE m1
        m3 == IF tool_included(gtmetrix)
              THEN LET gtm_metrics == Get(gtmetrix[1].data, "metrics", EmptyDict)
                   IN  Put(m2, "gtmetrix",
                           [performanceScore |-> Get(gtm_metrics, "performanceScore", 0),
                            fullyLoadedTime |-> Get(gtm_metrics, "fullyLoadedTime", 0),
                            totalPageSize |-> Get(gtm_metrics, "totalPageSize", 0),
                            requests |-> Get(gtm_metrics, "requests", 0),
                            speedIndex |-> Get(gtm_metrics, "speedIndex", 0)])
              ELSE m2
    IN  Put(m3, "averages", _calculate_averages(m3))

\* a comparison that also counts a tie for the main site
main_ahead_or_level(main_perf, comp_perf) == main_perf >= comp_perf

\* `if main_perf > comp_perf:`
main_ahead(main_perf, comp_perf) == main_perf > comp_perf

\* the loop of _generate_comparisons from competitor i on
RECURSIVE compare_from(_, _, _, _)
compare_from(main_perf, competitors, i, comparisons) ==
    IF i > Len(competitors) THEN comparisons
    ELSE LET comp == competitors[i]
             comp_perf == Get(Get(comp, "averages", EmptyDict), "avg_performance_score", 0)
         IN  compare_from(main_perf, competitors, i + 1,
                IF main_ahead(main_perf, comp_perf)
                THEN [comparisons EXCEPT !.better_than = Append(@,
                        [url |-> Get(comp, "url", NoUrl), score |-> comp_perf,
                         difference |-> main_perf - comp_perf])]
                ELSE [comparisons EXCEPT !.worse_than = Append(@,
                        [url |-> Get(comp, "url", NoUrl), score |-> comp_perf,
                         difference |-> comp_perf - main_perf]),
                      !.rank = @ + 1])

_generate_comparisons(main_site, competitors) ==
    IF competitors = <<>> THEN EmptyDict
    ELSE compare_from(
            Get(Get(main_site, "averages", EmptyDict), "avg_performance_score", 0),
            competitors, 1,
            [rank |-> 1, total_sites |-> Len(competitors) + 1,
             better_than |-> <<>>, worse_than |-> <<>>])

\* a variant whose bounds are exclusive
_get_performance_rating_exclusive(score) ==
    IF score > 90 THEN "Excellent - Your site has outstanding performance!"
    ELSE IF score > 75 THEN "Good - Your site performs well with room for optimization."
    ELSE IF score > 50 THEN "Fair - Your site needs performance improvements."
    ELSE "Poor - Your site has significant performance issues."

_get_performance_rating(score) ==
    IF score >= 90 THEN "Excellent - Your site has outstanding performance!"
    ELSE IF score >= 75 THEN "Good - Your site performs well with room for optimization."
    ELSE IF score >= 50 THEN "Fair - Your site needs performance improvements."
    ELSE "Poor - Your site has significant performance issues."

\* a variant that rates FCP on the LCP scale
_summarize_key_metrics_one_scale(site) ==
    LET averages == Get(site, "averages", EmptyDict)
        fcp == Get(averages, "avg_fcp", 0)
        lcp == Get(averages, "avg_lcp", 0)
        fcp_rating == IF fcp < 2500 THEN "good"
                      ELSE IF fcp < 4000 THEN "needs improvement" ELSE "poor"
        lcp_rating == IF lcp < 2500 THEN "good"
                      ELSE IF lcp < 4000 THEN "needs improvement" ELSE "poor"
        fcp_part == IF fcp # 0
                    THEN <<<<"FCP: ">> \o str(fcp) \o <<"ms (", fcp_rating, ")">>>>
                    ELSE <<>>
        lcp_part == IF lcp # 0
                    THEN <<<<"LCP: ">> \o str(lcp) \o <<"ms (", lcp_rating, ")">>>>
                    ELSE <<>>
        summary_parts == fcp_part \o lcp_part
    IN  IF summary_parts = <<>> THEN <<"Metrics unavailable">>
        ELSE IF Len(summary_parts) = 1 THEN summary_parts[1]
        ELSE summary_parts[1] \o <<", ">> \o summary_parts[2]

_summarize_key_metrics(site) ==
    LET averages == Get(site, "averages", EmptyDict)
        fcp == Get(averages, "avg_fcp", 0)
        lcp == Get(averages, "avg_lcp", 0)
        fcp_rating == IF fcp < 1800 THEN "good"
                      ELSE IF fcp < 3000 THEN "needs improvement" ELSE "poor"
        lcp_rating == IF lcp < 2500 THEN "good"
                      ELSE IF lcp < 4000 THEN "needs improvement" ELSE "poor"
        fcp_part == IF fcp # 0
                    THEN <<<<"FCP: ">> \o str(fcp) \o <<"ms (", fcp_rating, ")">>>>
                    ELSE <<>>
        lcp_part == IF lcp # 0
                    THEN <<<<"LCP: ">> \o str(lcp) \o <<"ms (", lcp_rating, ")">>>>
                    ELSE <<>>
        summary_parts == fcp_part \o lcp_part
    IN  IF summary_parts = <<>> THEN <<"Metrics unavailable">>
        ELSE IF Len(summary_parts) = 1 THEN summary_parts[1]
        ELSE summary_parts[1] \o <<", ">> \o summary_parts[2]

_generate_summary(main_site, comparisons) ==
    LET averages == Get(main_site, "averages", EmptyDict)
        perf_score == Get(averages, "avg_performance_score", 0)
        rank == IF "rank" \in DOMAIN comparisons
                THEN str(comparisons["rank"]) ELSE <<"N/A">>
        total_sites == str(Get(comparisons, "total_sites", 1))
    IN  [overall |-> _get_performance_rating(perf_score),
         ranking |-> <<"Ranked ">> \o rank \o <<" out of ">> \o total_sites \o <<" sites">>,
         key_metrics |-> _summarize_key_metrics(main_site)]

\* next((r for r in results if ...), None), given the results that pass the
\* test
next(hits) == IF hits = <<>> THEN <<>> ELSE <<hits[1]>>

\* a variant that raises when no entry is flagged is_main, as an unguarded
\* main_lighthouse['data'] would
aggregate_metrics_raises_without_main(lighthouse, webpagetest, gtmetrix) ==
    \A i \in 1..Len(lighthouse) : ~Get(lighthouse[i], "is_main", FALSE)

\* whether aggregate_metrics raises: its only subscripts are the r['url'] of
\* the competitor loop, a KeyError for an entry without url that is reached
\* while the non-main entries are listed, or by a search before it finds the
\* competitor's entry
aggregate_metrics_raises(lighthouse, webpagetest, gtmetrix) ==
    LET is_main(r) == Get(r, "is_main", FALSE)
        no_url(r) == "url" \notin DOMAIN r
        others == SelectSeq(lighthouse, LAMBDA r : ~is_main(r))
        \* next((r for r in results if r['url'] == url), None)
        search_raises(results, url) ==
            \E i \in 1..Len(results) :
                /\ no_url(results[i])
                /\ \A k \in 1..(i - 1) : results[k].url # url
    IN  \/ \E i \in 1..Len(others) : no_url(others[i])
        \/ \E i \in 1..Len(others) :
              \/ search_raises(lighthouse, others[i].url)
              \/ search_raises(webpagetest, others[i].url)
              \/ search_raises(gtmetrix, others[i].url)

\* a variant that makes a competitor of every lighthouse entry
aggregate_metrics_every_entry(lighthouse, webpagetest, gtmetrix) ==
    LET is_main(r) == Get(r, "is_main", FALSE)
        main_lighthouse == next(SelectSeq(lighthouse, is_main))
        main_site ==
            IF main_lighthouse # <<>>
            THEN _aggregate_single_site(main_lighthouse,
                                        next(SelectSeq(webpagetest, is_main)),
                                        next(SelectSeq(gtmetrix, is_main)))
            ELSE EmptyDict
        others == lighthouse
        competitor_urls == [i \in 1..Len(others) |-> others[i].url]
        competitor_data(url) ==
            LET has_url(r) == r.url = url
            IN  Put(_aggregate_single_site(next(SelectSeq(lighthouse, has_url)),
                                           next(SelectSeq(webpagetest, has_url)),
                                           next(SelectSeq(gtmetrix, has_url))),
                    "url", url)
        competitors == [i \in 1..Len(competitor_urls) |->
                           competitor_data(competitor_urls[i])]
    IN  Only({[main_site |-> site,
               competitors |-> sites,
               comparisons |-> comparisons,
               summary |-> _generate_summary(site, comparisons)] :
              site \in {main_site},
              sites \in {competitors},
              comparisons \in {_generate_comparisons(main_site, competitors)}})

\* a variant that gives every competitor the first WebPageTest result,
\* whatever its URL
aggregate_metrics_first_webpagetest(lighthouse, webpagetest, gtmetrix) ==
    LET is_main(r) == Get(r, "is_main", FALSE)
        main_lighthouse == next(SelectSeq(lighthouse, is_main))
        main_site ==
            IF main_lighthouse # <<>>
            THEN _aggregate_single_site(main_lighthouse,
                                        next(SelectSeq(webpagetest, is_main)),
                                        next(SelectSeq(gtmetrix, is_main)))
            ELSE EmptyDict
        others == SelectSeq(lighthouse, LAMBDA r : ~is_main(r))
        competitor_urls == [i \in 1..Len(others) |-> others[i].url]
        competitor_data(url) ==
            LET has_url(r) == r.url = url
            IN  Put(_aggregate_single_site(next(SelectSeq(lighthouse, has_url)),
                                           next(webpagetest),
                                           next(SelectSeq(gtmetrix, has_url))),
                    "url", url)
        competitors == [i \in 1..Len(competitor_urls) |->
                           competitor_data(competitor_urls[i])]
    IN  Only({[main_site |-> site,
               competitors |-> sites,
               comparisons |-> comparisons,
               summary |-> _generate_summary(site, comparisons)] :
              site \in {main_site},
              sites \in {competitors},
              comparisons \in {_generate_comparisons(main_site, competitors)}})

aggregate_metrics(lighthouse, webpagetest, gtmetrix) ==
    LET is_main(r) == Get(r, "is_main", FALSE)
        main_lighthouse == next(SelectSeq(lighthouse, is_main))
        main_site ==
            IF main_lighthouse # <<>>
            THEN _aggregate_single_site(main_lighthouse,
                                        next(SelectSeq(webpagetest, is_main)),
                                        next(SelectSeq(gtmetrix, is_main)))
            ELSE EmptyDict
        others == SelectSeq(lighthouse, LAMBDA r : ~is_main(r))
        competitor_urls == [i \in 1..Len(others) |-> others[i].url]
        competitor_data(url) ==
            LET has_url(r) == r.url = url
            IN  Put(_aggregate_single_site(next(SelectSeq(lighthouse, has_url)),
                                           next(SelectSeq(webpagetest, has_url)),
                                           next(SelectSeq(gtmetrix, has_url))),
                    "url", url)
        competitors == [i \in 1..Len(competitor_urls) |->
                           competitor_data(competitor_urls[i])]
    IN  Only({[main_site |-> site,
               competitors |-> sites,
               comparisons |-> comparisons,
               summary |-> _generate_summary(site, comparisons)] :
              site \in {main_site},
              sites \in {competitors},
              comparisons \in {_generate_comparisons(main_site, competitors)}})

_generate_rule_based_recommendations(aggregated_metrics) ==
    LET main_site == Get(aggregated_metrics, "main_site", EmptyDict)
        lighthouse == Get(main_site, "lighthouse", EmptyDict)
        fcp == Get(lighthouse, "fcp", 0)
        lcp == Get(lighthouse, "lcp", 0)
    IN  (IF fcp > 3000 THEN <<"Improve First Contentful Paint">> ELSE <<>>)
        \o (IF lcp > 4000 THEN <<"Optimize Largest Contentful Paint">> ELSE <<>>)
        \o <<"Implement Caching Strategy">>

\* what the generative backend does when generate_recommendations calls it:
\* there is none (self.llm is None), the call raises, the answer holds no
\* JSON array, or it holds one
LlmOutcomes == {"none", "raise", "no_json", "json"}

\* generate_recommendations; a recommendation is modelled by its title, the
\* list parsed from the backend's answer by one entry
\* a variant that answers a raising backend with no recommendation at all
generate_recommendations_empty_on_error(aggregated_metrics, llm) ==
    IF llm = "json" THEN <<"parsed from the answer">>
    ELSE IF llm = "raise" THEN <<>>
    ELSE _generate_rule_based_recommendations(aggregated_metrics)

generate_recommendations(aggregated_metrics, llm) ==
    IF llm = "json" THEN <<"parsed from the answer">>
    ELSE _generate_rule_based_recommendations(aggregated_metrics)

----------------------------------------------------------------------------
\* langgraph_workflow.py, the nodes that call the agents

\* analysis_node: o = "ok" the try body completes, o = "raise" it raises
analysis_node(st, o) ==
    AnalysisState(st,
        IF /\ o = "ok"
           /\ ~aggregate_metrics_raises(st.lighthouse_results, st.webpagetest_results,
                                        st.gtmetrix_results)
        THEN Only({[st EXCEPT !.aggregated_metrics = <<aggregated>>,
                              !.recommendations =
                                  generate_recommendations(aggregated, "none"),
                              !.progress = 85] :
                   aggregated \in {aggregate_metrics(st.lighthouse_results,
                                                     st.webpagetest_results,
                                                     st.gtmetrix_results)}})
        ELSE [st EXCEPT !.errors = st.errors \o <<[kind |-> "Analysis error", url |-> NoUrl]>>])

\* ReportAgent.generate_report: its own except branch turns a rendering
\* failure into a failure-tagged result
generate_report(o) == [success |-> o = "ok"]

\* report_node with the except branch also setting progress 100
report_node_failed_at_100(st, o) ==
    AnalysisState(st,
        IF o # "raise"
        THEN [st EXCEPT !.pdf_data = <<generate_report(o)>>,
                        !.progress = 100,
                        !.status = "completed"]
        ELSE [st EXCEPT !.errors = st.errors \o <<[kind |-> "Report generation error", url |-> NoUrl]>>,
                        !.progress = 100,
                        !.status = "failed"])

\* report_node: o = "ok" / "fail" generate_report returns, o = "raise" it raises
report_node(st, o) ==
    AnalysisState(st,
        IF o # "raise"
        THEN [st EXCEPT !.pdf_data = <<generate_report(o)>>,
                        !.progress = 100,
                        !.status = "completed"]
        ELSE [st EXCEPT !.errors = st.errors \o <<[kind |-> "Report generation error", url |-> NoUrl]>>,
                        !.status = "failed"])

----------------------------------------------------------------------------
\* main.py

\* the record start_analysis stores (no pdf_data key: reads default to {})
NewJob(j, main_url, competitor_urls) ==
    [job_id |-> j, status |-> "queued", progress |-> 0,
     main_url |-> main_url, competitor_urls |-> competitor_urls,
     lighthouse_results |-> <<>>, screenshots |-> <<>>,
     aggregated_metrics |-> <<>>, recommendations |-> <<>>,
     pdf_data |-> <<>>, errors |-> <<>>]

\* '; '.join(errors): the entries in order, with the separator between each
\* two of them
Join(errors) ==
    [i \in 1..(IF errors = <<>> THEN 0 ELSE 2 * Len(errors) - 1) |->
        IF i % 2 = 1 THEN errors[(i + 1) \div 2] ELSE [kind |-> "; ", url |-> NoUrl]]

\* a get_status that gives the error summary of failed jobs only
get_status_error_if_failed(j) ==
    IF j \notin DOMAIN jobs
    THEN [code |-> 404, status |-> "Job not found", progress |-> 0,
          current_step |-> "", results |-> <<>>, error |-> <<>>]
    ELSE LET job == jobs[j]
         IN  [code |-> 200, status |-> job.status, progress |-> job.progress,
              current_step |-> job.status,
              results |-> IF job.status = "completed" THEN <<job.aggregated_metrics>> ELSE <<>>,
              error |-> IF job.status = "failed" /\ job.errors # <<>>
                        THEN <<Join(job.errors)>> ELSE <<>>]

\* get_status: the AnalysisStatus it returns, or the 404
get_status(j) ==
    IF j \notin DOMAIN jobs
    THEN [code |-> 404, status |-> "Job not found", progress |-> 0,
          current_step |-> "", results |-> <<>>, error |-> <<>>]
    ELSE LET job == jobs[j]
         IN  [code |-> 200, status |-> job.status, progress |-> job.progress,
              current_step |-> job.status,
              results |-> IF job.status = "completed" THEN <<job.aggregated_metrics>> ELSE <<>>,
              error |-> IF job.errors # <<>> THEN <<Join(job.errors)>> ELSE <<>>]

\* get_results without the test of the status
get_results_any_status(j) ==
    IF j \notin DOMAIN jobs
    THEN [code |-> 404, body |-> <<>>]
    ELSE LET job == jobs[j]
         IN  [code |-> 200,
              body |-> <<[job_id |-> j,
                          main_url |-> job.main_url,
                          lighthouse_results |-> job.lighthouse_results,
                          screenshots |-> job.screenshots,
                          aggregated_metrics |-> job.aggregated_metrics,
                          recommendations |-> job.recommendations,
                          errors |-> job.errors]>>]

\* download_report: the file it answers with, or the 404 / 400 and its detail;
\* only a successful generate_report result carries a pdf_path
download_report(j) ==
    IF j \notin DOMAIN jobs
    THEN [code |-> 404, detail |-> "Job not found", file |-> <<>>]
    ELSE LET job == jobs[j]
         IN  IF job.status # "completed"
             THEN [code |-> 400, detail |-> "Report not ready", file |-> <<>>]
             ELSE IF job.pdf_data = <<>> \/ ~job.pdf_data[1].success
                  THEN [code |-> 404, detail |-> "PDF not found", file |-> <<>>]
                  ELSE [code |-> 200, detail |-> "", file |-> <<j>>]

\* get_results: the body it returns, or the 404 / 400
get_results(j) ==
    IF j \notin DOMAIN jobs
    THEN [code |-> 404, body |-> <<>>]
    ELSE LET job == jobs[j]
         IN  IF job.status # "completed"
             THEN [code |-> 400, body |-> <<>>]
             ELSE [code |-> 200,
                   body |-> <<[job_id |-> j,
                               main_url |-> job.main_url,
                               lighthouse_results |-> job.lighthouse_results,
                               screenshots |-> job.screenshots,
                               aggregated_metrics |-> job.aggregated_metrics,
                               recommendations |-> job.recommendations,
                               errors |-> job.errors]>>]

\* a write-back that has stored status and progress but not yet the results
WriteBackJobsStatusOnly(j, result) ==
    IF j \in DOMAIN jobs
    THEN [jobs EXCEPT ![j] = [@ EXCEPT
            !.status = result.status,
            !.progress = result.progress]]
    ELSE jobs

\* a write-back that stores the results in every record of the registry
WriteBackJobsEveryRecord(j, result) ==
    [k \in DOMAIN jobs |-> [jobs[k] EXCEPT
        !.status = result.status,
        !.progress = result.progress,
        !.lighthouse_results = result.lighthouse_results,
        !.screenshots = result.screenshots,
        !.aggregated_metrics = result.aggregated_metrics,
        !.recommendations = result.recommendations,
        !.pdf_data = result.pdf_data,
        !.errors = result.errors]]

\* a write-back that stores the results and leaves the status alone
WriteBackJobsKeepsStatus(j, result) ==
    IF j \in DOMAIN jobs
    THEN [jobs EXCEPT ![j] = [@ EXCEPT
            !.progress = result.progress,
            !.lighthouse_results = result.lighthouse_results,
            !.screenshots = result.screenshots,
            !.aggregated_metrics = result.aggregated_metrics,
            !.recommendations = result.recommendations,
            !.pdf_data = result.pdf_data,
            !.errors = result.errors]]
    ELSE jobs

\* a write-back without the `if job_id in jobs:` test, which stores a
\* record under the id whether or not one is there
WriteBackJobsUnguarded(j, result) ==
    [k \in DOMAIN jobs \cup {j} |->
        IF k = j
        THEN [job_id |-> j, status |-> result.status, progress |-> result.progress,
              main_url |-> result.main_url, competitor_urls |-> result.competitor_urls,
              lighthouse_results |-> result.lighthouse_results,
              screenshots |-> result.screenshots,
              aggregated_metrics |-> result.aggregated_metrics,
              recommendations |-> result.recommendations,
              pdf_data |-> result.pdf_data, errors |-> result.errors]
        ELSE jobs[k]]

\* run_analysis, `if job_id in jobs:` ... final results
WriteBackJobs(j, result) ==
    IF j \in DOMAIN jobs
    THEN [jobs EXCEPT ![j] = [@ EXCEPT
            !.status = result.status,
            !.progress = result.progress,
            !.lighthouse_results = result.lighthouse_results,
            !.screenshots = result.screenshots,
            !.aggregated_metrics = result.aggregated_metrics,
            !.recommendations = result.recommendations,
            !.pdf_data = result.pdf_data,
            !.errors = result.errors]]
    ELSE jobs

\* a variant whose except branch puts the job back in the queue
WorkflowErrorRequeues(j) ==
    IF j \in DOMAIN jobs
    THEN [jobs EXCEPT ![j] = [@ EXCEPT
            !.status = "queued",
            !.progress = 0,
            !.errors = @ \o <<[kind |-> "Workflow error", url |-> NoUrl]>>]]
    ELSE jobs

\* a variant whose except branch does nothing
WorkflowErrorSwallowed(j) == jobs

\* run_analysis, the except branch
WorkflowError(j) ==
    IF j \in DOMAIN jobs
    THEN [jobs EXCEPT ![j] = [@ EXCEPT
            !.status = "failed",
            !.progress = 0,
            !.errors = @ \o <<[kind |-> "Workflow error", url |-> NoUrl]>>]]
    ELSE jobs

----------------------------------------------------------------------------
\* no function of AnalysisAgent has been called
NoCall == [fn |-> ""]

Init ==
    /\ aliased \in BOOLEAN
    /\ jobs = <<>>
    /\ issued = {}
    /\ pc = [j \in JobIds |-> "idle"]
    /\ state = [j \in JobIds |-> BlankState]
    /\ executed = [j \in JobIds |-> <<>>]
    /\ outs = [j \in JobIds |-> [lighthouse |-> <<>>, screenshots |-> <<>>,
                                 analysis |-> "", report |-> ""]]
    /\ faults = 0
    /\ lastPoll = [j \in JobIds |-> <<>>]
    /\ cancelledAt = [j \in JobIds |-> ""]
    /\ calc = NoCall

\* a variant that schedules the task and leaves the record to the run
start_analysis_schedules_only(j, main_url, competitor_urls) ==
    /\ j \notin issued
    /\ issued' = issued \cup {j}
    /\ state' = [state EXCEPT ![j] = [BlankState EXCEPT !.job_id = j,
                                         !.main_url = main_url,
                                         !.competitor_urls = competitor_urls]]
    /\ pc' = [pc EXCEPT ![j] = "scheduled"]
    /\ UNCHANGED <<aliased, jobs, executed, outs, faults, lastPoll, cancelledAt, calc>>

\* POST /api/analyze: start_analysis stores the record, then schedules the task
start_analysis(j, main_url, competitor_urls) ==
    /\ j \notin issued
    /\ issued' = issued \cup {j}
    /\ jobs' = [k \in DOMAIN jobs \cup {j} |->
                  IF k = j THEN NewJob(j, main_url, competitor_urls) ELSE jobs[k]]
    /\ state' = [state EXCEPT ![j] = [BlankState EXCEPT !.job_id = j,
                                         !.main_url = main_url,
                                         !.competitor_urls = competitor_urls]]
    /\ pc' = [pc EXCEPT ![j] = "scheduled"]
    /\ UNCHANGED <<aliased, executed, outs, faults, lastPoll, cancelledAt, calc>>

\* run_analysis up to graph.ainvoke
RunStart(j) ==
    /\ pc[j] = "scheduled"
    /\ jobs' = IF j \in DOMAIN jobs
               THEN [jobs EXCEPT ![j] = [@ EXCEPT !.status = "running", !.progress = 10]]
               ELSE jobs
    /\ state' = [state EXCEPT ![j] =
                    initial_state(j, state[j].main_url, state[j].competitor_urls)]
    /\ pc' = [pc EXCEPT ![j] = EntryPoint]
    /\ UNCHANGED <<aliased, issued, executed, outs, faults, lastPoll, cancelledAt, calc>>

Ran(j, n) ==
    /\ executed' = [executed EXCEPT ![j] = Append(@, n)]
    /\ pc' = [pc EXCEPT ![j] = Edge(n)]

InitializeStep(j) ==
    /\ pc[j] = "initialize"
    /\ state' = [state EXCEPT ![j] = initialize_node(@)]
    /\ Ran(j, "initialize")
    /\ UNCHANGED <<aliased, jobs, issued, outs, faults, lastPoll, cancelledAt, calc>>

LighthouseStep(j) ==
    /\ pc[j] = "lighthouse"
    /\ \E o \in [1..Len(all_urls(state[j])) -> Outcomes] :
        /\ faults + NonOk(o) <= MaxFaults
        /\ faults' = faults + NonOk(o)
        /\ state' = [state EXCEPT ![j] = lighthouse_node(@, o)]
        /\ outs' = [outs EXCEPT ![j].lighthouse = o]
    /\ Ran(j, "lighthouse")
    /\ UNCHANGED <<aliased, jobs, issued, lastPoll, cancelledAt, calc>>

ScreenshotStep(j) ==
    /\ pc[j] = "capture_screenshots"
    /\ \E o \in [1..Len(all_urls(state[j])) -> Outcomes] :
        /\ faults + NonOk(o) <= MaxFaults
        /\ faults' = faults + NonOk(o)
        /\ state' = [state EXCEPT ![j] = screenshot_node(@, o)]
        /\ outs' = [outs EXCEPT ![j].screenshots = o]
    /\ Ran(j, "capture_screenshots")
    /\ UNCHANGED <<aliased, jobs, issued, lastPoll, cancelledAt, calc>>

AnalysisStep(j) ==
    /\ pc[j] = "analysis"
    /\ \E o \in {"ok", "raise"} :
        /\ o = "ok" \/ faults < MaxFaults
        /\ faults' = IF o = "ok" THEN faults ELSE faults + 1
        /\ state' = [state EXCEPT ![j] = analysis_node(@, o)]
        /\ outs' = [outs EXCEPT ![j].analysis = o]
    /\ Ran(j, "analysis")
    /\ UNCHANGED <<aliased, jobs, issued, lastPoll, cancelledAt, calc>>

\* AnalysisAgent() raises in analysis_node before its try: the exception
\* leaves graph.ainvoke and run_analysis handles it
AnalysisAgentRaises(j) ==
    /\ pc[j] = "analysis"
    /\ faults < MaxFaults
    /\ faults' = faults + 1
    /\ jobs' = WorkflowError(j)
    /\ outs' = [outs EXCEPT ![j].analysis = "init_raise"]
    /\ pc' = [pc EXCEPT ![j] = "done"]
    /\ UNCHANGED <<aliased, issued, state, executed, lastPoll, cancelledAt, calc>>

ReportStep(j) ==
    /\ pc[j] = "report"
    /\ \E o \in Outcomes :
        /\ o = "ok" \/ faults < MaxFaults
        /\ faults' = IF o = "ok" THEN faults ELSE faults + 1
        /\ state' = [state EXCEPT ![j] = report_node(@, o)]
        /\ outs' = [outs EXCEPT ![j].report = o]
    /\ Ran(j, "report")
    /\ UNCHANGED <<aliased, jobs, issued, lastPoll, cancelledAt, calc>>

\* run_analysis after graph.ainvoke returns
WriteBack(j) ==
    /\ pc[j] = "END"
    /\ jobs' = WriteBackJobs(j, state[j])
    /\ pc' = [pc EXCEPT ![j] = "done"]
    /\ UNCHANGED <<aliased, issued, state, executed, outs, faults, lastPoll, cancelledAt, calc>>

\* GET /api/status/{job_id}
Poll(j) ==
    /\ j \in issued
    /\ lastPoll' = [lastPoll EXCEPT ![j] = <<get_status(j)>>]
    /\ UNCHANGED <<aliased, jobs, issued, pc, state, executed, outs, faults, cancelledAt, calc>>

\* DELETE /api/jobs/{job_id}
delete_job(j) ==
    /\ j \in DOMAIN jobs
    /\ jobs' = [k \in DOMAIN jobs \ {j} |-> jobs[k]]
    /\ UNCHANGED <<aliased, issued, pc, state, executed, outs, faults, lastPoll, cancelledAt, calc>>

Next ==
    \E j \in OneJob :
        \/ \E main_url \in MainUrls, competitor_urls \in SeqsUpTo(Urls, MaxCompetitors) :
              start_analysis(j, main_url, competitor_urls)
        \/ RunStart(j)
        \/ InitializeStep(j)
        \/ LighthouseStep(j)
        \/ ScreenshotStep(j)
        \/ AnalysisStep(j)
        \/ AnalysisAgentRaises(j)
        \/ ReportStep(j)
        \/ WriteBack(j)
        \/ Poll(j)
        \/ delete_job(j)

Spec == Init /\ [][Next]_vars

\* delete_job, with the position of the job's run noted in cancelledAt
CancelJob(j) ==
    /\ j \in DOMAIN jobs
    /\ jobs' = [k \in DOMAIN jobs \ {j} |-> jobs[k]]
    /\ cancelledAt' = [cancelledAt EXCEPT ![j] = pc[j]]
    /\ UNCHANGED <<aliased, issued, pc, state, executed, outs, faults, lastPoll, calc>>

\* one job, its run and the caller's delete_job
NextCancel ==
    \E j \in OneJob :
        \/ \E main_url \in MainUrls, competitor_urls \in SeqsUpTo(Urls, MaxCompetitors) :
              start_analysis(j, main_url, competitor_urls)
        \/ RunStart(j)
        \/ InitializeStep(j)
        \/ LighthouseStep(j)
        \/ ScreenshotStep(j)
        \/ AnalysisStep(j)
        \/ AnalysisAgentRaises(j)
        \/ ReportStep(j)
        \/ WriteBack(j)
        \/ CancelJob(j)

SpecCancel == Init /\ [][NextCancel]_vars

\* a step of the background task of job j
RunStep(j) ==
    \/ RunStart(j)
    \/ InitializeStep(j)
    \/ LighthouseStep(j)
    \/ ScreenshotStep(j)
    \/ AnalysisStep(j)
    \/ AnalysisAgentRaises(j)
    \/ ReportStep(j)
    \/ WriteBack(j)

\* one job, its run and the caller's delete_job, with every call of the run
\* returning or raising in the end: the event loop resumes a task whose
\* awaited call has finished, so a step of the run that stays possible is
\* taken
NextLive ==
    \E j \in OneJob :
        \/ \E main_url \in MainUrls, competitor_urls \in ConcurrentCompetitors :
              start_analysis(j, main_url, competitor_urls)
        \/ RunStep(j)
        \/ delete_job(j)

SpecLive == Init /\ [][NextLive]_vars /\ \A j \in OneJob : WF_vars(RunStep(j))

\* two jobs submitted and run concurrently: the event loop interleaves the
\* two background tasks, and the handler that deletes a record, at every
\* await, that is between any two steps
NextJobs ==
    \E j \in JobIds :
        \/ \E main_url \in MainUrls, competitor_urls \in ConcurrentCompetitors :
              start_analysis(j, main_url, competitor_urls)
        \/ RunStart(j)
        \/ InitializeStep(j)
        \/ LighthouseStep(j)
        \/ ScreenshotStep(j)
        \/ AnalysisStep(j)
        \/ AnalysisAgentRaises(j)
        \/ ReportStep(j)
        \/ WriteBack(j)
        \/ delete_job(j)

SpecJobs == Init /\ [][NextJobs]_vars

----------------------------------------------------------------------------
\* The functions of AnalysisAgent, called on their own: one call per behaviour

\* the values the tools report: times in ms and scores in points
Millis == {0, 1200, 3000}
Scores == {0, 60, 90}

\* the dicts with some of the keys, each with one of the values
Dicts(keys, values) == UNION {[ks -> values] : ks \in SUBSET keys}

\* what LighthouseAgent.analyze returns: its failure result, or its metrics
\* and scores
LighthouseData ==
    {[success |-> FALSE, metrics |-> EmptyDict, scores |-> EmptyDict]}
    \cup {[success |-> TRUE, metrics |-> m, scores |-> sc] :
            m \in Dicts({"fcp", "lcp"}, Millis),
            sc \in Dicts({"performance_score"}, Scores)}

\* what WebPageTestAgent.analyze returns: failure, fallback, or a parsed run
WebPageTestData ==
    {[success |-> FALSE, metrics |-> EmptyDict, scores |-> EmptyDict],
     [success |-> TRUE, fallback |-> TRUE,
      metrics |-> [loadTime |-> 0, TTFB |-> 0, speedIndex |-> 0], scores |-> EmptyDict]}
    \cup {[success |-> TRUE, metrics |-> m, scores |-> sc] :
            m \in Dicts({"firstContentfulPaint"}, Millis),
            sc \in Dicts({"performance"}, Scores)}

\* what GTmetrixAgent.analyze returns: failure, fallback, or a parsed report
GTmetrixData ==
    {[success |-> FALSE, metrics |-> EmptyDict, scores |-> EmptyDict],
     [success |-> TRUE, fallback |-> TRUE,
      metrics |-> [performanceScore |-> 0, structureScore |-> 0, fullyLoadedTime |-> 0],
      scores |-> EmptyDict]}
    \cup {[success |-> TRUE, metrics |-> m, scores |-> EmptyDict] :
            m \in Dicts({"performanceScore"}, Scores)}

\* the entry of a tool's result list for a URL, or None when it has none
Samples(url, data) == {<<>>} \cup {<<[url |-> url, data |-> d]>> : d \in data}

\* the aggregated sites _generate_comparisons is given: no lighthouse entry,
\* or a lighthouse sample with or without a performance score
ComparedSites ==
    {_aggregate_single_site(lh, <<>>, <<>>) :
        lh \in {<<>>} \cup
              {<<[url |-> "a",
                  data |-> [success |-> TRUE,
                            metrics |-> [fcp |-> 1200, lcp |-> 3000],
                            scores |-> sc]]>> :
                  sc \in Dicts({"performance_score"}, Scores \ {0})}}

\* the overall score with the placeholder term 50 instead of 50 * 0.4
performance_score_14400_placeholder_50(metrics) ==
    LET max0(x) == IF x > 0 THEN x ELSE 0
        \* 100 below good, from 100 down to 50 between good and poor, then
        \* max(0, 50 - (v - poor) / poor * 50); poor divides 50 * 14400
        score(v, good, poor) ==
            IF v < good THEN 100 * 14400
            ELSE IF v < poor
                 THEN 100 * 14400 - ((v - good) * 50 * 14400) \div (poor - good)
                 ELSE max0(50 * 14400 - (v - poor) * ((50 * 14400) \div poor))
        fcp_score == score(Get(metrics, "fcp", 0), 1800, 3000)
        lcp_score == score(Get(metrics, "lcp", 0), 2500, 4000)
        cls_score == score(Get(metrics, "cls", 0), 100, 250)
        ttfb_score == score(Get(metrics, "ttfb", 0), 800, 1800)
    IN  fcp_score \div 10 + lcp_score \div 4 + (cls_score * 15) \div 100
        + ttfb_score \div 10 + 50 * 14400

\* LighthouseAgent._calculate_scores.  The scores are computed in 1/14400 of
\* a point, where every quotient of the code is a whole number; times are in
\* ms and cls in thousandths.  Of the result only performance_score is kept,
\* in points: the pages drawn below have a whole performance_score.
performance_score_14400(metrics) ==
    LET max0(x) == IF x > 0 THEN x ELSE 0
        \* 100 below good, from 100 down to 50 between good and poor, then
        \* max(0, 50 - (v - poor) / poor * 50); poor divides 50 * 14400
        score(v, good, poor) ==
            IF v < good THEN 100 * 14400
            ELSE IF v < poor
                 THEN 100 * 14400 - ((v - good) * 50 * 14400) \div (poor - good)
                 ELSE max0(50 * 14400 - (v - poor) * ((50 * 14400) \div poor))
        fcp_score == score(Get(metrics, "fcp", 0), 1800, 3000)
        lcp_score == score(Get(metrics, "lcp", 0), 2500, 4000)
        cls_score == score(Get(metrics, "cls", 0), 100, 250)
        ttfb_score == score(Get(metrics, "ttfb", 0), 800, 1800)
    IN  fcp_score \div 10 + lcp_score \div 4 + (cls_score * 15) \div 100
        + ttfb_score \div 10 + 20 * 14400

_calculate_scores(metrics) ==
    [performance_score |-> performance_score_14400(metrics) \div 14400]

\* what LighthouseAgent.analyze returns for a page with these metrics
analyze(metrics) ==
    [success |-> TRUE, metrics |-> metrics, scores |-> _calculate_scores(metrics)]

Page(fcp, lcp) == [fcp |-> fcp, lcp |-> lcp, cls |-> 0, ttfb |-> 0]

\* the entries of the three result lists aggregate_metrics is called with;
\* is_main is url == main_url
LighthouseEntries ==
    {[url |-> "a", is_main |-> TRUE, data |-> d] :
        d \in {[success |-> FALSE, metrics |-> EmptyDict, scores |-> EmptyDict],
               analyze(Page(2000, 3000))}}
    \cup {[url |-> url, is_main |-> FALSE, data |-> d] :
            url \in Urls \ MainUrls,
            d \in {[success |-> FALSE, metrics |-> EmptyDict, scores |-> EmptyDict],
                   analyze(Page(1000, 2000))}}

\* a parsed WebPageTest run reports a first contentful paint that differs
\* from URL to URL, its fallback result reports none
WebPageTestEntries ==
    UNION {{[url |-> url, is_main |-> url \in MainUrls, data |-> d] :
              d \in {[success |-> TRUE,
                      metrics |-> [firstContentfulPaint |->
                                      CASE url = "a" -> 1200 [] url = "b" -> 1800
                                        [] OTHER -> 3000],
                      scores |-> EmptyDict],
                     [success |-> TRUE, fallback |-> TRUE,
                      metrics |-> [loadTime |-> 0, TTFB |-> 0, speedIndex |-> 0],
                      scores |-> EmptyDict]}} :
           url \in Urls}

\* a GTmetrix report, with a score that differs from URL to URL
GTmetrixEntries ==
    {[url |-> url, is_main |-> url \in MainUrls,
      data |-> [success |-> TRUE,
                metrics |-> [performanceScore |-> IF url = "a" THEN 85 ELSE 90],
                scores |-> EmptyDict]] :
        url \in {"a", "b"}}

\* AnalysisAgent.aggregate_metrics
AggregateMetrics ==
    /\ calc = NoCall
    /\ \E lighthouse \in SeqsUpTo(LighthouseEntries, MaxCompetitors + 1),
          webpagetest \in SeqsUpTo(WebPageTestEntries, 2),
          gtmetrix \in SeqsUpTo(GTmetrixEntries, 1) :
          calc' = [fn |-> "aggregate_metrics",
                   lighthouse |-> lighthouse,
                   webpagetest |-> webpagetest,
                   gtmetrix |-> gtmetrix,
                   ret |-> aggregate_metrics(lighthouse, webpagetest, gtmetrix)]
    /\ UNCHANGED <<aliased, jobs, issued, pc, state, executed, outs, faults, lastPoll,
                   cancelledAt>>

\* the performance scores a rating is asked for
RatedScores == 0..100

\* AnalysisAgent._get_performance_rating
Rate ==
    /\ calc = NoCall
    /\ \E score \in RatedScores :
          calc' = [fn |-> "_get_performance_rating",
                   score |-> score,
                   ret |-> _get_performance_rating(score)]
    /\ UNCHANGED <<aliased, jobs, issued, pc, state, executed, outs, faults, lastPoll,
                   cancelledAt>>

\* paint times on and next to the rating thresholds
KeyMillis == {0, 1799, 1800, 2499, 2500, 2999, 3000, 3999, 4000}

\* the aggregated sites _summarize_key_metrics is given: of a Lighthouse run
\* that failed or measured a page (its score, floored here, is not read), and
\* of a WebPageTest run, if any
SummarizedSites ==
    {_aggregate_single_site(lh, wpt, <<>>) :
        lh \in {<<>>,
                <<[url |-> "a",
                   data |-> [success |-> FALSE, metrics |-> EmptyDict,
                             scores |-> EmptyDict]]>>}
               \cup {<<[url |-> "a", data |-> analyze(Page(fcp, lcp))]>> :
                       fcp \in KeyMillis, lcp \in KeyMillis},
        wpt \in {<<>>,
                 <<[url |-> "a",
                    data |-> [success |-> TRUE,
                              metrics |-> [firstContentfulPaint |-> 1800],
                              scores |-> [performance |-> 60]]]>>}}

\* AnalysisAgent._summarize_key_metrics
Summarize ==
    /\ calc = NoCall
    /\ \E site \in SummarizedSites :
          calc' = [fn |-> "_summarize_key_metrics",
                   site |-> site,
                   ret |-> _summarize_key_metrics(site)]
    /\ UNCHANGED <<aliased, jobs, issued, pc, state, executed, outs, faults, lastPoll,
                   cancelledAt>>

\* the main site's Lighthouse result when recommendations are asked for:
\* a failed run, or pages with paint times on and beyond the limits of the
\* rules (each with a whole performance_score)
RecommendedPages ==
    {[success |-> FALSE, metrics |-> EmptyDict, scores |-> EmptyDict],
     analyze(Page(1000, 2000)),
     analyze(Page(3000, 4800)),
     analyze(Page(3600, 4800)),
     analyze([Page(3600, 4000) EXCEPT !.ttfb = 900]),
     analyze([Page(3000, 4000) EXCEPT !.ttfb = 900])}

\* AnalysisAgent.generate_recommendations, on what aggregate_metrics returned
GenerateRecommendations ==
    /\ calc = NoCall
    /\ \E lighthouse \in {<<>>} \cup {<<[url |-> "a", is_main |-> TRUE, data |-> d]>> :
                                        d \in RecommendedPages},
          llm \in LlmOutcomes :
          LET aggregated_metrics == aggregate_metrics(lighthouse, <<>>, <<>>)
          IN  calc' = [fn |-> "generate_recommendations",
                       lighthouse |-> lighthouse,
                       aggregated_metrics |-> aggregated_metrics,
                       llm |-> llm,
                       ret |-> generate_recommendations(aggregated_metrics, llm)]
    /\ UNCHANGED <<aliased, jobs, issued, pc, state, executed, outs, faults, lastPoll,
                   cancelledAt>>

AggregateSingleSite ==
    /\ calc = NoCall
    /\ \E lighthouse \in Samples("a", LighthouseData),
          webpagetest \in Samples("a", WebPageTestData),
          gtmetrix \in Samples("a", GTmetrixData) :
          calc' = [fn |-> "_aggregate_single_site",
                   lighthouse |-> lighthouse,
                   webpagetest |-> webpagetest,
                   gtmetrix |-> gtmetrix,
                   ret |-> _aggregate_single_site(lighthouse, webpagetest, gtmetrix)]
    /\ UNCHANGED <<aliased, jobs, issued, pc, state, executed, outs, faults, lastPoll,
                   cancelledAt>>

\* aggregate_metrics from `# Generate comparisons` on
Compare ==
    /\ calc = NoCall
    /\ \E main_site \in {EmptyDict} \cup ComparedSites,
          competitors \in SeqsUpTo({Put(site, "url", url) :
                                      site \in ComparedSites, url \in Urls \ MainUrls},
                                   MaxCompetitors) :
          LET comparisons == _generate_comparisons(main_site, competitors)
          IN  calc' = [fn |-> "_generate_comparisons",
                       main_site |-> main_site,
                       competitors |-> competitors,
                       ret |-> comparisons,
                       summary |-> _generate_summary(main_site, comparisons)]
    /\ UNCHANGED <<aliased, jobs, issued, pc, state, executed, outs, faults, lastPoll,
                   cancelledAt>>

\* the measurements a page is scored for: below, at and between the
\* thresholds of each metric and far above them (cls in thousandths)
FcpValues == {0, 1799, 1800, 2400, 2999, 3000, 4500, 6000, 60000}

LcpValues == {0, 2499, 2500, 3250, 3999, 4000, 6000, 8000, 80000}

ClsValues == {0, 99, 100, 175, 249, 250, 375, 500, 5000}

TtfbValues == {0, 799, 800, 1300, 1799, 1800, 2700, 3600, 36000}

\* LighthouseAgent._calculate_scores on a page's metrics, and the site
\* AnalysisAgent._aggregate_single_site makes of that Lighthouse result alone
CalculateScores ==
    /\ calc = NoCall
    /\ \E fcp \in FcpValues, lcp \in LcpValues, cls \in ClsValues, ttfb \in TtfbValues :
          LET metrics == [fcp |-> fcp, lcp |-> lcp, cls |-> cls, ttfb |-> ttfb]
          IN  calc' = [fn |-> "_calculate_scores",
                       metrics |-> metrics,
                       performance_score_14400 |-> performance_score_14400(metrics),
                       ret |-> _calculate_scores(metrics),
                       site |-> _aggregate_single_site(
                                    <<[url |-> "a", data |-> analyze(metrics)]>>, <<>>, <<>>)]
    /\ UNCHANGED <<aliased, jobs, issued, pc, state, executed, outs, faults, lastPoll,
                   cancelledAt>>

NextCalc ==
    \/ AggregateSingleSite
    \/ Compare
    \/ AggregateMetrics
    \/ Rate
    \/ Summarize
    \/ GenerateRecommendations
    \/ CalculateScores

SpecCalc == Init /\ [][NextCalc]_vars

----------------------------------------------------------------------------
\* Properties

NodeNames == Range(Nodes)

NodeIndex(n) == CHOOSE i \in 1..Len(Nodes) : Nodes[i] = n

HasRun(j, n) == n \in Range(executed[j])

Finished(j) == pc[j] \in {"END", "done"}

\* C1: in every run the stages execute in the fixed order initialize,
\* lighthouse, capture_screenshots, analysis, report: the nodes that have run
\* are a prefix of that order, the node about to run is the one right after
\* them (none is skipped, repeated or started early), and a run that reaches
\* END has run all five.
C1_StagesInFixedOrder ==
    \A j \in JobIds :
        /\ IsPrefix(executed[j], Nodes)
        /\ pc[j] \in NodeNames => executed[j] = SubSeq(Nodes, 1, NodeIndex(pc[j]) - 1)
        /\ pc[j] = "END" => executed[j] = Nodes

C1_Witness ==
    \E j \in DOMAIN jobs :
        pc[j] = "done" /\ executed[j] = Nodes /\ jobs[j].status = "completed"

\* C2: if the Analyze stage raises as a whole, the Report stage is not run
\* for that job and the job's final status is failed.
C2_StageFailureAborts ==
    \A j \in JobIds :
        outs[j].analysis = "raise" =>
            /\ ~HasRun(j, "report")
            /\ (pc[j] = "done" /\ j \in DOMAIN jobs) => jobs[j].status = "failed"

\* C3: progress never decreases from one answer of get_status to the next
\* answer for the same job.
C3_ProgressMonotone ==
    [][\A j \in JobIds :
          (/\ lastPoll[j] # <<>> /\ lastPoll'[j] # <<>>
           /\ lastPoll[j][1].code = 200 /\ lastPoll'[j][1].code = 200)
          => lastPoll'[j][1].progress >= lastPoll[j][1].progress]_vars

\* C4: a per-URL failure does not abort anything: every URL whose call
\* returned has its entry in the stage's results and every URL whose call
\* raised has its error entry, whatever happened to the URLs before it; a run
\* that no node-level exception ended runs all five stages; and a job ends
\* failed only when the report node's call raised or the workflow itself
\* raised, never because of per-URL failures.
C4_PerUrlFailureDoesNotAbort ==
    \A j \in JobIds :
        LET urls == all_urls(state[j])
            Handled(n, field, kind, o) ==
                HasRun(j, n) =>
                    \A i \in 1..Len(urls) :
                        IF o[i] = "raise"
                        THEN [kind |-> kind, url |-> urls[i]] \in Range(state[j].errors)
                        ELSE \E r \in Range(field) :
                                r.url = urls[i] /\ r.data.success = (o[i] = "ok")
        IN  /\ Handled("lighthouse", state[j].lighthouse_results,
                       "Lighthouse error", outs[j].lighthouse)
            /\ Handled("capture_screenshots", state[j].screenshots,
                       "Screenshot error", outs[j].screenshots)
            /\ (Finished(j) /\ outs[j].analysis # "init_raise") => executed[j] = Nodes
            /\ (pc[j] = "done" /\ j \in DOMAIN jobs /\ jobs[j].status = "failed")
                  => (outs[j].report = "raise" \/ outs[j].analysis = "init_raise")

C4_Witness ==
    \E j \in DOMAIN jobs :
        /\ pc[j] = "done" /\ jobs[j].status = "completed"
        /\ Len(outs[j].lighthouse) >= 2
        /\ outs[j].lighthouse[1] = "raise" /\ outs[j].lighthouse[2] = "ok"
        /\ \E i \in 1..Len(outs[j].screenshots) : outs[j].screenshots[i] = "fail"

\* C5: every URL whose capture or screenshot did not succeed (the call raised
\* or returned a result with success = False) is named by an entry of errors
\* once the stage has run.
C5_EveryFailureRecorded ==
    \A j \in JobIds :
        LET urls == all_urls(state[j])
            Recorded(n, o) ==
                HasRun(j, n) =>
                    \A i \in 1..Len(urls) :
                        o[i] # "ok" => \E e \in Range(state[j].errors) : e.url = urls[i]
        IN  /\ Recorded("lighthouse", outs[j].lighthouse)
            /\ Recorded("capture_screenshots", outs[j].screenshots)

\* C6: when a job with pairwise distinct URLs has finished, lighthouse_results
\* and screenshots hold at most one entry per URL, and exactly one for every
\* URL whose call did not raise.
C6_OneEntryPerUrl ==
    \A j \in JobIds :
        LET urls == all_urls(state[j])
            Entries(field, u) == Cardinality({i \in 1..Len(field) : field[i].url = u})
            Once(field, o) ==
                \A i \in 1..Len(urls) :
                    Entries(field, urls[i]) = IF o[i] = "raise" THEN 0 ELSE 1
        IN  (/\ Finished(j) /\ executed[j] = Nodes
             /\ \A i, k \in 1..Len(urls) : i # k => urls[i] # urls[k])
            => /\ Once(state[j].lighthouse_results, outs[j].lighthouse)
               /\ Once(state[j].screenshots, outs[j].screenshots)

\* C7: a stage never removes, overwrites or reorders what earlier stages
\* committed: across every step of a run, lighthouse_results, screenshots and
\* errors as they were before the step are a prefix of what they are after it.
C7_StagesPreserveCommitted ==
    [][\A j \in JobIds :
          pc[j] \in NodeNames =>
              /\ IsPrefix(state[j].lighthouse_results, state'[j].lighthouse_results)
              /\ IsPrefix(state[j].screenshots, state'[j].screenshots)
              /\ IsPrefix(state[j].errors, state'[j].errors)]_vars

C7_Witness ==
    \E j \in JobIds :
        /\ pc[j] = "analysis"
        /\ state[j].lighthouse_results # <<>>
        /\ \E e \in Range(state[j].errors) : e.kind = "Lighthouse error"
        /\ \E e \in Range(state[j].errors) : e.kind = "Screenshot error"

\* C8: if report rendering fails, the job ends failed, its progress is not
\* 100 and errors holds an entry that describes the failure.
C8_RenderFailureFailsJob ==
    \A j \in JobIds :
        (Finished(j) /\ outs[j].report \in {"fail", "raise"}) =>
            /\ state[j].status = "failed"
            /\ state[j].progress # 100
            /\ \E e \in Range(state[j].errors) : e.kind = "Report generation error"

\* the checkpoint of the last stage of job j that completed successfully
LastCheckpoint(j) ==
    IF HasRun(j, "analysis") /\ outs[j].analysis = "ok" THEN 85
    ELSE IF HasRun(j, "capture_screenshots") THEN 70
    ELSE IF HasRun(j, "lighthouse") THEN 25
    ELSE IF HasRun(j, "initialize") THEN 5
    ELSE 0

\* C9: a job that ended failed reports the checkpoint of the last stage that
\* completed successfully, never 100.
C9_FailedKeepsCheckpoint ==
    \A j \in DOMAIN jobs :
        jobs[j].status = "failed" =>
            /\ jobs[j].progress = LastCheckpoint(j)
            /\ jobs[j].progress # 100

\* C10: while a later stage of a job is in flight, get_status reports nothing
\* older than what the last completed stage committed: at least its progress
\* checkpoint, and an error summary with every error it committed.
C10_PollReflectsLastCommitted ==
    \A j \in DOMAIN jobs :
        (pc[j] \in NodeNames /\ executed[j] # <<>>) =>
            /\ get_status(j).progress >= state[j].progress
            /\ \A e \in Range(state[j].errors) :
                  /\ get_status(j).error # <<>>
                  /\ e \in Range(get_status(j).error[1])

\* C11: a reader never sees a torn record: whenever a job's record says
\* completed, the run has finished its write-back and the record's
\* aggregated_metrics, recommendations, pdf_data and errors are the ones the
\* finished workflow returned, pdf_data being the report stage's result and
\* not the empty value of a new record; get_status and get_results answer
\* from exactly those values.
C11_NoTornRecord ==
    \A j \in DOMAIN jobs :
        jobs[j].status = "completed" =>
            /\ pc[j] = "done" /\ executed[j] = Nodes
            /\ jobs[j].aggregated_metrics = state[j].aggregated_metrics
            /\ jobs[j].recommendations = state[j].recommendations
            /\ jobs[j].pdf_data = state[j].pdf_data
            /\ jobs[j].pdf_data # <<>>
            /\ jobs[j].errors = state[j].errors
            /\ get_status(j).results = <<state[j].aggregated_metrics>>
            /\ get_results(j).code = 200
            /\ get_results(j).body[1].aggregated_metrics = state[j].aggregated_metrics
            /\ get_results(j).body[1].recommendations = state[j].recommendations
            /\ get_results(j).body[1].errors = state[j].errors

C11_Witness ==
    \E j \in DOMAIN jobs :
        /\ jobs[j].status = "completed"
        /\ lastPoll[j] # <<>> /\ lastPoll[j][1].status = "completed"
        /\ lastPoll[j][1].results = <<state[j].aggregated_metrics>>
        /\ state[j].aggregated_metrics # <<>>
        /\ state[j].errors # <<>>

\* C12: once delete_job has been called for a job that was queued or in
\* flight, the stage that is running may finish but no further stage of that
\* job starts: a job cancelled while queued runs no stage, and a job
\* cancelled while stage n was in flight never runs the stage after n.
C12_CancelStopsFurtherStages ==
    \A j \in JobIds :
        /\ cancelledAt[j] = "scheduled" => executed[j] = <<>>
        /\ cancelledAt[j] \in NodeNames => ~HasRun(j, Edge(cancelledAt[j]))

\* C13: jobs are independent: a step of one job (its submission, the start
\* of its run, a stage, the write-back or the workflow-error branch) leaves
\* the registry record of every other job as it was, present or absent.
C13_JobsIndependent ==
    [][\A j, k \in JobIds :
          (j # k /\ pc'[j] # pc[j]) =>
              /\ (k \in DOMAIN jobs) = (k \in DOMAIN jobs')
              /\ k \in DOMAIN jobs => jobs'[k] = jobs[k]]_vars

C13_Witness ==
    \E j, k \in DOMAIN jobs :
        /\ j # k
        /\ pc[j] = "done" /\ jobs[j].status = "completed" /\ jobs[j].progress = 100
        /\ pc[k] = "analysis" /\ jobs[k].status = "running" /\ jobs[k].progress = 10
        /\ jobs[k].aggregated_metrics = <<>>

\* C14: for every job whose record has a non-empty errors list, whatever
\* its status (completed included), get_status answers with an error summary
\* that is not null and contains every entry of that list.
C14_ErrorSummaryComplete ==
    \A j \in DOMAIN jobs :
        jobs[j].errors # <<>> =>
            /\ get_status(j).code = 200
            /\ get_status(j).error # <<>>
            /\ \A i \in 1..Len(jobs[j].errors) :
                  jobs[j].errors[i] \in Range(get_status(j).error[1])

C14_Witness ==
    \E j \in DOMAIN jobs :
        /\ jobs[j].status = "completed"
        /\ Len(jobs[j].errors) >= 2
        /\ lastPoll[j] # <<>>
        /\ lastPoll[j][1].status = "completed"
        /\ lastPoll[j][1].error = <<Join(jobs[j].errors)>>

\* C15: a job with two competitor URLs in which the screenshot of exactly
\* one competitor fails, and nothing else does, still ends completed; what
\* the Report stage is handed, and what the job ends with, is an errors list
\* of exactly one entry, naming the failed URL, and a screenshots list
\* without an entry for the failed URL.
C15_OneScreenshotFailure ==
    \A j \in JobIds :
        LET urls == all_urls(state[j])
            o == outs[j].screenshots
            failed == {i \in 1..Len(o) : o[i] # "ok"}
        IN  (/\ pc[j] \in {"report", "END", "done"}
             /\ Len(urls) = 3 /\ Cardinality(Range(urls)) = 3
             /\ \A i \in 1..Len(urls) : outs[j].lighthouse[i] = "ok"
             /\ Cardinality(failed) = 1 /\ o[1] = "ok"
             /\ outs[j].analysis = "ok"
             /\ pc[j] # "report" => outs[j].report = "ok")
            => \A i \in failed :
                  /\ Len(state[j].errors) = 1
                  /\ state[j].errors[1].url = urls[i]
                  /\ \A r \in Range(state[j].screenshots) : r.url # urls[i]
                  /\ (pc[j] = "done" /\ j \in DOMAIN jobs) => jobs[j].status = "completed"

\* the score _generate_comparisons reads from an aggregated site
avg_performance_score(site) ==
    Get(Get(site, "averages", EmptyDict), "avg_performance_score", 0)

\* the positions i of competitors selected by test, and the place of position
\* i among them
Selected(competitors, test(_)) == {i \in 1..Len(competitors) : test(competitors[i])}

Place(positions, i) == Cardinality({k \in positions : k <= i})

\* C16: for a non-empty competitor list, rank is 1 plus the number of
\* competitors whose score is strictly greater than the main site's; a
\* competitor whose score equals the main site's is placed in better_than and
\* does not increase rank.
C16_TieFavoursMain ==
    (calc.fn = "_generate_comparisons" /\ calc.competitors # <<>>) =>
        LET main == avg_performance_score(calc.main_site)
            above == Selected(calc.competitors,
                              LAMBDA c : avg_performance_score(c) > main)
            level == Selected(calc.competitors,
                              LAMBDA c : avg_performance_score(c) = main)
        IN  /\ calc.ret.rank = 1 + Cardinality(above)
            /\ Len(calc.ret.worse_than) = Cardinality(above)
            /\ \A i \in level :
                  \E e \in Range(calc.ret.better_than) :
                      e.url = calc.competitors[i]["url"] /\ e.difference = 0

\* C17: for a non-empty competitor list, better_than holds, in order, the
\* competitors the main site's score is strictly greater than, each with
\* difference main - competitor; worse_than holds, in order, all the others
\* (ties included), each with difference competitor - main; so every
\* competitor is in exactly one list, rank is 1 + the length of worse_than,
\* total_sites is the number of competitors + 1 and no difference is negative.
C17_CompareBuckets ==
    (calc.fn = "_generate_comparisons" /\ calc.competitors # <<>>) =>
        LET main == avg_performance_score(calc.main_site)
            comps == calc.competitors
            below == Selected(comps, LAMBDA c : main > avg_performance_score(c))
            others == (1..Len(comps)) \ below
            entry(i, difference) ==
                [url |-> comps[i]["url"], score |-> avg_performance_score(comps[i]),
                 difference |-> difference]
            ret == calc.ret
        IN  /\ Len(ret.better_than) = Cardinality(below)
            /\ \A i \in below :
                  ret.better_than[Place(below, i)]
                      = entry(i, main - avg_performance_score(comps[i]))
            /\ Len(ret.worse_than) = Cardinality(others)
            /\ \A i \in others :
                  ret.worse_than[Place(others, i)]
                      = entry(i, avg_performance_score(comps[i]) - main)
            /\ Len(ret.better_than) + Len(ret.worse_than) = Len(comps)
            /\ ret.rank = 1 + Len(ret.worse_than)
            /\ ret.total_sites = Len(comps) + 1
            /\ \A e \in Range(ret.better_than) \cup Range(ret.worse_than) :
                  e.difference >= 0

C17_Witness ==
    /\ calc.fn = "_generate_comparisons"
    /\ Len(calc.competitors) = 2
    /\ avg_performance_score(calc.main_site) = 60
    /\ avg_performance_score(calc.competitors[1]) = 60
    /\ avg_performance_score(calc.competitors[2]) = 0
    /\ calc.ret.rank = 2
    /\ Len(calc.ret.worse_than) = 1 /\ calc.ret.worse_than[1].difference = 0
    /\ Len(calc.ret.better_than) = 1 /\ calc.ret.better_than[1].difference = 60

\* C18: with an empty competitor list the comparison is rank = 1,
\* total_sites = 1, better_than = [] and worse_than = [], and the ranking
\* sentence of the summary reads rank 1 out of 1 sites.
C18_CompareWithoutCompetitors ==
    (calc.fn = "_generate_comparisons" /\ calc.competitors = <<>>) =>
        /\ DOMAIN calc.ret = {"rank", "total_sites", "better_than", "worse_than"}
        /\ Get(calc.ret, "rank", 0) = 1
        /\ Get(calc.ret, "total_sites", 0) = 1
        /\ Get(calc.ret, "better_than", <<0>>) = <<>>
        /\ Get(calc.ret, "worse_than", <<0>>) = <<>>
        /\ calc.summary.ranking = <<"Ranked ", "1", " out of ", "1", " sites">>

\* the cross-tool metrics of averages
AverageNames == {"avg_fcp", "avg_lcp", "avg_performance_score"}

\* the value a tool contributes to a metric: the tool passed the inclusion
\* filter and its result reports the key
Contributed(sample, section, key) ==
    IF tool_included(sample) /\ key \in DOMAIN sample[1].data[section]
    THEN <<sample[1].data[section][key]>> ELSE <<>>

\* the values the tools of the last _aggregate_single_site call contribute
Contributions(m) ==
    CASE m = "avg_fcp" ->
            Contributed(calc.lighthouse, "metrics", "fcp")
            \o Contributed(calc.webpagetest, "metrics", "firstContentfulPaint")
      [] m = "avg_lcp" ->
            Contributed(calc.lighthouse, "metrics", "lcp")
      [] m = "avg_performance_score" ->
            Contributed(calc.lighthouse, "scores", "performance_score")
            \o Contributed(calc.webpagetest, "scores", "performance")
            \o Contributed(calc.gtmetrix, "metrics", "performanceScore")

\* a tool's failure result for the site
FailedSample ==
    <<[url |-> "a",
       data |-> [success |-> FALSE, metrics |-> EmptyDict, scores |-> EmptyDict]]>>

\* C19: averages[m] is the arithmetic mean of the values of exactly the
\* tools that passed the inclusion filter and reported m, the divisor being
\* the number of those tools; and giving a tool that had no sample a sample
\* with success = false changes no average.
C19_MeanOverContributors ==
    calc.fn = "_aggregate_single_site" =>
        LET averages == calc.ret["averages"]
        IN  /\ \A m \in AverageNames :
                  Contributions(m) # <<>> =>
                      Get(averages, m, -1) * Len(Contributions(m)) = sum(Contributions(m))
            /\ calc.lighthouse = <<>> =>
                  _aggregate_single_site(FailedSample, calc.webpagetest,
                                         calc.gtmetrix)["averages"] = averages
            /\ calc.webpagetest = <<>> =>
                  _aggregate_single_site(calc.lighthouse, FailedSample,
                                         calc.gtmetrix)["averages"] = averages
            /\ calc.gtmetrix = <<>> =>
                  _aggregate_single_site(calc.lighthouse, calc.webpagetest,
                                         FailedSample)["averages"] = averages

\* C20: averages has the key m exactly when at least one included tool
\* reported m: a metric no tool reported is omitted, not set to 0, and a
\* reported value of exactly 0 is a contribution like any other, so the
\* metric is present and the 0 is part of its mean.
C20_OmittedIffUnreported ==
    calc.fn = "_aggregate_single_site" =>
        LET averages == calc.ret["averages"]
        IN  \A m \in AverageNames :
                /\ (m \in DOMAIN averages) = (Contributions(m) # <<>>)
                /\ 0 \in Range(Contributions(m)) =>
                      /\ m \in DOMAIN averages
                      /\ Get(averages, m, -1) * Len(Contributions(m))
                            = sum(Contributions(m))

\* has the tool's result success = true and no fallback flag?
Usable(sample) ==
    /\ sample # <<>>
    /\ "success" \in DOMAIN sample[1].data /\ sample[1].data["success"]
    /\ ~("fallback" \in DOMAIN sample[1].data /\ sample[1].data["fallback"])

\* C21: for each of Lighthouse, WebPageTest and GTmetrix, the site's
\* aggregate holds the tool's metric subset only if the tool's result has
\* success = true and is not flagged as fallback; a failed or fallback
\* result contributes nothing: the aggregate, averages included, is the one
\* computed without that tool's result.
C21_InclusionFilter ==
    calc.fn = "_aggregate_single_site" =>
        /\ "lighthouse" \in DOMAIN calc.ret => Usable(calc.lighthouse)
        /\ "webpagetest" \in DOMAIN calc.ret => Usable(calc.webpagetest)
        /\ "gtmetrix" \in DOMAIN calc.ret => Usable(calc.gtmetrix)
        /\ ~Usable(calc.lighthouse) =>
              calc.ret = _aggregate_single_site(<<>>, calc.webpagetest, calc.gtmetrix)
        /\ ~Usable(calc.webpagetest) =>
              calc.ret = _aggregate_single_site(calc.lighthouse, <<>>, calc.gtmetrix)
        /\ ~Usable(calc.gtmetrix) =>
              calc.ret = _aggregate_single_site(calc.lighthouse, calc.webpagetest, <<>>)

C21_Witness ==
    /\ calc.fn = "_aggregate_single_site"
    /\ calc.lighthouse # <<>> /\ calc.lighthouse[1].data.success
    /\ calc.webpagetest # <<>> /\ Get(calc.webpagetest[1].data, "fallback", FALSE)
    /\ calc.gtmetrix # <<>> /\ ~calc.gtmetrix[1].data.success
    /\ DOMAIN calc.ret = {"lighthouse", "averages"}
    /\ "avg_performance_score" \in DOMAIN calc.ret["averages"]

\* the aggregated site with its averaged performance score set to a value
WithScore(site, score) ==
    Put(site, "averages",
        Put(Get(site, "averages", EmptyDict), "avg_performance_score", score))

\* C22: when the main site's averages have no performance score, the
\* comparison is made with 0 for the main site and its result carries a flag
\* of this: a key beyond rank, total_sites, better_than and worse_than, so
\* that the result differs from the one for a main site whose measured score
\* is 0, and so does the summary made from it.
C22_MissingScoreFlagged ==
    (/\ calc.fn = "_generate_comparisons" /\ calc.competitors # <<>>
     /\ "avg_performance_score" \notin DOMAIN Get(calc.main_site, "averages", EmptyDict))
    => /\ DOMAIN calc.ret \ {"rank", "total_sites", "better_than", "worse_than"} # {}
       /\ calc.ret # _generate_comparisons(WithScore(calc.main_site, 0), calc.competitors)
       /\ calc.summary.ranking #
             _generate_summary(WithScore(calc.main_site, 0),
                 _generate_comparisons(WithScore(calc.main_site, 0),
                                       calc.competitors)).ranking

\* C23: with Lighthouse-only samples, the main site at fcp 2000 ms and lcp
\* 3000 ms and a single competitor at fcp 1000 ms and lcp 2000 ms (cls and
\* ttfb 0, scores from _calculate_scores), the main site's key_metrics reads
\* "FCP: 2000ms (needs improvement), LCP: 3000ms (needs improvement)" and the
\* comparison ranks the main site 2 of 2.
C23_WorkedExample ==
    (/\ calc.fn = "aggregate_metrics"
     /\ calc.lighthouse =
            <<[url |-> "a", is_main |-> TRUE, data |-> analyze(Page(2000, 3000))],
              [url |-> "b", is_main |-> FALSE, data |-> analyze(Page(1000, 2000))]>>
     /\ calc.webpagetest = <<>> /\ calc.gtmetrix = <<>>)
    => /\ calc.ret.summary.key_metrics =
             <<"FCP: ", "2", "0", "0", "0", "ms (", "needs improvement", ")", ", ",
               "LCP: ", "3", "0", "0", "0", "ms (", "needs improvement", ")">>
       /\ calc.ret.comparisons.rank = 2
       /\ calc.ret.comparisons.total_sites = 2
       /\ calc.ret.summary.ranking = <<"Ranked ", "2", " out of ", "2", " sites">>

C23_Witness ==
    /\ calc.fn = "aggregate_metrics"
    /\ Len(calc.lighthouse) = 2 /\ calc.webpagetest = <<>> /\ calc.gtmetrix = <<>>
    /\ calc.lighthouse[1].is_main /\ calc.lighthouse[1].data.success
    /\ calc.lighthouse[1].data.metrics.fcp = 2000
    /\ calc.lighthouse[1].data.metrics.lcp = 3000
    /\ performance_score_14400(calc.lighthouse[1].data.metrics) = 75 * 14400
    /\ calc.lighthouse[2].url = "b" /\ calc.lighthouse[2].data.success
    /\ calc.lighthouse[2].data.metrics.fcp = 1000
    /\ calc.lighthouse[2].data.metrics.lcp = 2000
    /\ performance_score_14400(calc.lighthouse[2].data.metrics) = 80 * 14400
    /\ calc.ret.main_site["averages"]["avg_performance_score"] = 75
    /\ calc.ret.comparisons.worse_than[1].score = 80

\* C24: the rating is Excellent exactly for scores of 90 and more, Good
\* exactly from 75 to below 90, Fair exactly from 50 to below 75 and Poor
\* exactly below 50: a score on a boundary belongs to the higher bucket.
C24_RatingBuckets ==
    calc.fn = "_get_performance_rating"
    => /\ calc.ret \in {"Excellent - Your site has outstanding performance!",
                        "Good - Your site performs well with room for optimization.",
                        "Fair - Your site needs performance improvements.",
                        "Poor - Your site has significant performance issues."}
       /\ calc.ret = "Excellent - Your site has outstanding performance!"
              <=> calc.score >= 90
       /\ calc.ret = "Good - Your site performs well with room for optimization."
              <=> (75 <= calc.score /\ calc.score < 90)
       /\ calc.ret = "Fair - Your site needs performance improvements."
              <=> (50 <= calc.score /\ calc.score < 75)
       /\ calc.ret = "Poor - Your site has significant performance issues."
              <=> calc.score < 50

C24_Witness ==
    /\ calc.fn = "_get_performance_rating"
    /\ calc.score = 75
    /\ calc.ret = "Good - Your site performs well with room for optimization."

\* C25: key_metrics rates every metric that is present in averages (FCP:
\* good below 1800 ms, needs improvement below 3000 ms, else poor; LCP: good
\* below 2500 ms, needs improvement below 4000 ms, else poor), skips the
\* absent ones, and reads "Metrics unavailable" rather than nothing when
\* neither is present.
C25_KeyMetricsRateEachPresent ==
    calc.fn = "_summarize_key_metrics"
    => LET averages == calc.site["averages"]
           rating(v, good, poor) ==
               IF v < good THEN "good"
               ELSE IF v < poor THEN "needs improvement" ELSE "poor"
           rated(key, label, good, poor) ==
               IF key \in DOMAIN averages
               THEN <<<<label>> \o str(averages[key])
                      \o <<"ms (", rating(averages[key], good, poor), ")">>>>
               ELSE <<>>
           parts == rated("avg_fcp", "FCP: ", 1800, 3000)
                       \o rated("avg_lcp", "LCP: ", 2500, 4000)
       IN  /\ calc.ret # <<>>
           /\ calc.ret = IF parts = <<>> THEN <<"Metrics unavailable">>
                         ELSE IF Len(parts) = 1 THEN parts[1]
                         ELSE parts[1] \o <<", ">> \o parts[2]

\* C26: aggregate_metrics returns one competitor entry for each non-main
\* entry of the lighthouse list, in the order of that list; a URL that
\* occurs only in the list of another tool gives no competitor; and the
\* WebPageTest and GTmetrix subsets of a competitor are those of the entry
\* with the competitor's URL.
C26_CompetitorsFollowLighthouse ==
    calc.fn = "aggregate_metrics"
    => LET others == SelectSeq(calc.lighthouse, LAMBDA r : ~r.is_main)
           competitors == calc.ret.competitors
           for(results, url) == SelectSeq(results, LAMBDA r : r.url = url)
       IN  /\ Len(competitors) = Len(others)
           /\ \A i \in 1..Len(others) :
                LET url == others[i].url
                    wpt == for(calc.webpagetest, url)
                    gtm == for(calc.gtmetrix, url)
                IN  /\ competitors[i]["url"] = url
                    /\ "webpagetest" \in DOMAIN competitors[i]
                          <=> (wpt # <<>> /\ Usable(<<wpt[1]>>))
                    /\ "webpagetest" \in DOMAIN competitors[i]
                          => competitors[i]["webpagetest"].firstContentfulPaint
                                = wpt[1].data.metrics.firstContentfulPaint
                    /\ "gtmetrix" \in DOMAIN competitors[i]
                          <=> (gtm # <<>> /\ Usable(<<gtm[1]>>))
                    /\ "gtmetrix" \in DOMAIN competitors[i]
                          => competitors[i]["gtmetrix"].performanceScore
                                = gtm[1].data.metrics.performanceScore
           /\ \A i \in 1..Len(competitors) :
                \E k \in 1..Len(calc.lighthouse) :
                    /\ ~calc.lighthouse[k].is_main
                    /\ calc.lighthouse[k].url = competitors[i]["url"]

\* the lighthouse list is main, c, b; WebPageTest ran b and then a, and
\* GTmetrix ran b only: the competitors are c and b, b with both subsets
C26_Witness ==
    /\ calc.fn = "aggregate_metrics"
    /\ Len(calc.lighthouse) = 3
    /\ calc.lighthouse[1].is_main
    /\ calc.lighthouse[2].url = "c" /\ calc.lighthouse[3].url = "b"
    /\ Len(calc.webpagetest) = 2
    /\ calc.webpagetest[1].url = "b" /\ Usable(<<calc.webpagetest[1]>>)
    /\ calc.webpagetest[2].url = "a"
    /\ Len(calc.gtmetrix) = 1 /\ calc.gtmetrix[1].url = "b"
    /\ Len(calc.ret.competitors) = 2
    /\ calc.ret.competitors[1]["url"] = "c"
    /\ "webpagetest" \notin DOMAIN calc.ret.competitors[1]
    /\ calc.ret.competitors[2]["url"] = "b"
    /\ calc.ret.competitors[2]["webpagetest"].firstContentfulPaint = 1800
    /\ calc.ret.competitors[2]["gtmetrix"].performanceScore = 90

\* C28: when no generative backend is configured, or its call raises, or
\* its answer holds no parseable JSON array, generate_recommendations returns
\* the rule-based list: the FCP recommendation exactly when the main site's
\* Lighthouse fcp exceeds 3000, the LCP recommendation exactly when its lcp
\* exceeds 4000, and then the caching recommendation, always: one to three
\* entries.
C28_RuleBasedFallback ==
    (calc.fn = "generate_recommendations" /\ calc.llm \in {"none", "raise", "no_json"})
    => LET measured == calc.lighthouse # <<>> /\ calc.lighthouse[1].data.success
           fcp == IF measured THEN calc.lighthouse[1].data.metrics.fcp ELSE 0
           lcp == IF measured THEN calc.lighthouse[1].data.metrics.lcp ELSE 0
           titles == Range(calc.ret)
       IN  /\ Len(calc.ret) \in 1..3
           /\ "Improve First Contentful Paint" \in titles <=> fcp > 3000
           /\ "Optimize Largest Contentful Paint" \in titles <=> lcp > 4000
           /\ calc.ret[Len(calc.ret)] = "Implement Caching Strategy"
           /\ Len(calc.ret) = 1 + (IF fcp > 3000 THEN 1 ELSE 0)
                                + (IF lcp > 4000 THEN 1 ELSE 0)
           /\ (fcp > 3000 /\ lcp > 4000)
                 => calc.ret[1] = "Improve First Contentful Paint"

\* the backend raised for a main site with fcp 3600 and lcp 4000: the FCP and
\* the caching recommendation
C28_Witness ==
    /\ calc.fn = "generate_recommendations"
    /\ calc.llm = "raise"
    /\ calc.lighthouse # <<>> /\ calc.lighthouse[1].data.success
    /\ calc.lighthouse[1].data.metrics.fcp = 3600
    /\ calc.lighthouse[1].data.metrics.lcp = 4000
    /\ performance_score_14400(calc.lighthouse[1].data.metrics) = 61 * 14400
    /\ calc.ret = <<"Improve First Contentful Paint", "Implement Caching Strategy">>

\* C29: no exception escapes a job run.  A call that raises for one URL, or
\* inside the analysis or report stage, is absorbed by the stage: the run
\* goes on with the next node, the registry is untouched, and each raising
\* URL has its entry in the run's errors.  An exception that leaves the
\* workflow ends the run in run_analysis: the job, if it is still registered,
\* gets status failed and one more 'Workflow error' entry, and no other job's
\* record, run position or workflow state changes.
C29_NoExceptionEscapes ==
    [][\A j \in JobIds :
          /\ (pc[j] \in Range(Nodes) /\ pc'[j] # pc[j] /\ pc'[j] # "done")
                => /\ pc'[j] = Edge(pc[j])
                   /\ jobs' = jobs
                   /\ pc[j] \in {"lighthouse", "capture_screenshots"}
                         => LET o == IF pc[j] = "lighthouse" THEN outs'[j].lighthouse
                                     ELSE outs'[j].screenshots
                                kind == IF pc[j] = "lighthouse" THEN "Lighthouse error"
                                        ELSE "Screenshot error"
                                urls == all_urls(state[j])
                            IN  \A i \in 1..Len(urls) :
                                  o[i] = "raise"
                                    => [kind |-> kind, url |-> urls[i]]
                                          \in Range(state'[j].errors)
          /\ (pc[j] \in Range(Nodes) /\ pc'[j] = "done")
                => /\ DOMAIN jobs' = DOMAIN jobs
                   /\ j \in DOMAIN jobs
                         => /\ jobs'[j].status = "failed"
                            /\ jobs'[j].errors = jobs[j].errors
                                  \o <<[kind |-> "Workflow error", url |-> NoUrl]>>
                   /\ \A k \in JobIds \ {j} :
                         /\ k \in DOMAIN jobs => jobs'[k] = jobs[k]
                         /\ pc'[k] = pc[k]
                         /\ state'[k] = state[k]]_vars

\* a job whose Lighthouse call raised for a URL and whose workflow then
\* raised, next to a second job whose run goes on
C29_Witness ==
    \E j, k \in DOMAIN jobs :
        /\ j # k
        /\ pc[j] = "done" /\ outs[j].analysis = "init_raise"
        /\ "raise" \in Range(outs[j].lighthouse)
        /\ executed[j] = <<"initialize", "lighthouse", "capture_screenshots">>
        /\ jobs[j].status = "failed"
        /\ jobs[j].errors = <<[kind |-> "Workflow error", url |-> NoUrl]>>
        /\ pc[k] = "report" /\ jobs[k].status = "running"

\* the order of the job statuses
StatusRank(status) ==
    CASE status = "queued" -> 0
      [] status = "running" -> 1
      [] status \in {"completed", "failed"} -> 2

\* C30: the statuses that successive polls of a job report follow queued,
\* running, then completed or failed, and never go back; once completed or
\* failed has been reported, every later poll reports the same status,
\* progress and results, and the job's record stays as it is, until the job
\* is deleted.
C30_StatusForwardThenFrozen ==
    [][\A j \in OneJob :
          /\ (/\ lastPoll[j] # <<>> /\ lastPoll'[j] # <<>>
              /\ lastPoll[j][1].code = 200 /\ lastPoll'[j][1].code = 200)
                => /\ lastPoll'[j][1].status \in {"queued", "running", "completed", "failed"}
                   /\ StatusRank(lastPoll'[j][1].status) >= StatusRank(lastPoll[j][1].status)
                   /\ lastPoll[j][1].status \in {"completed", "failed"}
                         => /\ lastPoll'[j][1].status = lastPoll[j][1].status
                            /\ lastPoll'[j][1].progress = lastPoll[j][1].progress
                            /\ lastPoll'[j][1].results = lastPoll[j][1].results
          /\ (/\ j \in DOMAIN jobs /\ j \in DOMAIN jobs'
              /\ jobs[j].status \in {"completed", "failed"})
                => /\ jobs'[j] = jobs[j]
                   /\ get_results(j)' = get_results(j)]_vars

\* a poll has reported failed for a job whose workflow raised
C30_Witness ==
    \E j \in DOMAIN jobs :
        /\ pc[j] = "done" /\ outs[j].analysis = "init_raise"
        /\ lastPoll[j] # <<>>
        /\ lastPoll[j][1].code = 200
        /\ lastPoll[j][1].status = "failed"
        /\ lastPoll[j][1].progress = 0
        /\ lastPoll[j][1].results = <<>>

\* C31: in the lighthouse_results and in the screenshots of a job, whose
\* competitor URLs may repeat and may equal the main URL, at most one entry
\* has is_main = true, and that entry is the one produced for the main URL
\* slot, the first of the stage's calls: there is none when that call raised.
C31_AtMostOneMainEntry ==
    \A j \in JobIds :
        LET mains(field) == {i \in 1..Len(field) : field[i].is_main}
            OnlyMainSlot(field, o) ==
                /\ Cardinality(mains(field)) <= 1
                /\ mains(field) \subseteq {1}
                /\ (o # <<>> /\ o[1] = "raise") => mains(field) = {}
        IN  /\ OnlyMainSlot(state[j].lighthouse_results, outs[j].lighthouse)
            /\ OnlyMainSlot(state[j].screenshots, outs[j].screenshots)

\* C32: the aggregate of a site depends only on the results that identify
\* the site, the is_main flag for the main site and the URL for a
\* competitor: with the results of every other URL removed from the three
\* lists, aggregate_metrics returns the same main_site, and the same entry
\* for the competitor, subsets and averages included.
C32_SiteDependsOnOwnResults ==
    calc.fn = "aggregate_metrics"
    => LET main_only ==
               aggregate_metrics(SelectSeq(calc.lighthouse, LAMBDA r : r.is_main),
                                 SelectSeq(calc.webpagetest, LAMBDA r : r.is_main),
                                 SelectSeq(calc.gtmetrix, LAMBDA r : r.is_main))
           alone(url) ==
               aggregate_metrics(SelectSeq(calc.lighthouse, LAMBDA r : r.url = url),
                                 SelectSeq(calc.webpagetest, LAMBDA r : r.url = url),
                                 SelectSeq(calc.gtmetrix, LAMBDA r : r.url = url))
       IN  /\ calc.ret.main_site = main_only.main_site
           /\ \A i \in 1..Len(calc.ret.competitors) :
                LET mine == alone(calc.ret.competitors[i]["url"]).competitors
                IN  /\ mine # <<>>
                    /\ \A k \in 1..Len(mine) : mine[k] = calc.ret.competitors[i]

\* competitors b and c, both measured by Lighthouse; WebPageTest ran c and
\* then b: each competitor has the first contentful paint of its own run
C32_Witness ==
    /\ calc.fn = "aggregate_metrics"
    /\ Len(calc.lighthouse) = 3
    /\ calc.lighthouse[1].is_main /\ calc.lighthouse[1].data.success
    /\ calc.lighthouse[2].url = "b" /\ calc.lighthouse[2].data.success
    /\ calc.lighthouse[3].url = "c" /\ calc.lighthouse[3].data.success
    /\ Len(calc.webpagetest) = 2
    /\ calc.webpagetest[1].url = "c" /\ Usable(<<calc.webpagetest[1]>>)
    /\ calc.webpagetest[2].url = "b" /\ Usable(<<calc.webpagetest[2]>>)
    /\ calc.gtmetrix = <<>>
    /\ "webpagetest" \notin DOMAIN calc.ret.main_site
    /\ calc.ret.competitors[1]["webpagetest"].firstContentfulPaint = 1800
    /\ calc.ret.competitors[1]["averages"]["avg_fcp"] = 1400
    /\ calc.ret.competitors[2]["webpagetest"].firstContentfulPaint = 3000
    /\ calc.ret.competitors[2]["averages"]["avg_fcp"] = 2000

\* C33: the analysis stage tolerates missing entries: whichever Lighthouse
\* results are missing or failure-tagged, the main URL's included,
\* aggregate_metrics and the rule-based recommendations complete, so that a
\* stage into which no fault of its own was injected records no 'Analysis
\* error', stores the aggregate and the recommendations and sets progress 85.
C33_AnalysisToleratesMissing ==
    \A j \in JobIds :
        (HasRun(j, "analysis") /\ outs[j].analysis = "ok")
        => /\ \A e \in Range(state[j].errors) : e.kind # "Analysis error"
           /\ state[j].aggregated_metrics # <<>>
           /\ state[j].recommendations # <<>>
           /\ state[j].progress \in {85, 100}
           /\ pc[j] = "report" => state[j].progress = 85

\* the main URL's Lighthouse call raised and the competitor's run failed:
\* the aggregate has an empty main_site and a competitor without metrics
C33_Witness ==
    \E j \in JobIds :
        /\ pc[j] = "report" /\ outs[j].analysis = "ok"
        /\ outs[j].lighthouse = <<"raise", "fail">>
        /\ state[j].progress = 85
        /\ state[j].aggregated_metrics[1].main_site = EmptyDict
        /\ state[j].competitor_urls = <<"b">>
        /\ state[j].aggregated_metrics[1].competitors # <<>>
        /\ \A i \in 1..Len(state[j].aggregated_metrics[1].competitors) :
              /\ state[j].aggregated_metrics[1].competitors[i]["url"] = "b"
              /\ "lighthouse" \notin DOMAIN state[j].aggregated_metrics[1].competitors[i]
        /\ state[j].recommendations = <<"Implement Caching Strategy">>

\* C34: a job deleted while its run was queued or in flight stays deleted:
\* neither the start marker, nor the final write-back, nor the failure
\* handling of the run re-creates the record, and get_status answers 'Job not
\* found' for its id in every later state.
C34_DeletedStaysDeleted ==
    \A j \in JobIds :
        cancelledAt[j] # ""
        => /\ j \notin DOMAIN jobs
           /\ get_status(j).code = 404
           /\ get_status(j).status = "Job not found"
           /\ get_results(j).code = 404

\* a job deleted during its Lighthouse stage, whose run has since gone
\* through all stages and past its write-back
C34_Witness ==
    \E j \in JobIds :
        /\ cancelledAt[j] = "lighthouse"
        /\ pc[j] = "done" /\ executed[j] = Nodes
        /\ state[j].status = "completed"
        /\ j \notin DOMAIN jobs

\* C35: submission stores the record (status queued, progress 0, empty
\* result lists and errors) before the run is scheduled: from the moment the
\* id is issued until the job is deleted get_status never answers 'Job not
\* found', and the run, which starts from the scheduled task, finds the
\* record of a job that was not deleted.
C35_RecordBeforeRun ==
    \A j \in JobIds :
        /\ (j \in issued /\ cancelledAt[j] = "")
              => /\ j \in DOMAIN jobs
                 /\ get_status(j).code = 200
        /\ pc[j] # "idle" => j \in issued
        /\ (pc[j] = "scheduled" /\ cancelledAt[j] = "")
              => /\ jobs[j].status = "queued" /\ jobs[j].progress = 0
                 /\ jobs[j].lighthouse_results = <<>> /\ jobs[j].screenshots = <<>>
                 /\ jobs[j].aggregated_metrics = <<>> /\ jobs[j].recommendations = <<>>
                 /\ jobs[j].errors = <<>>
                 /\ get_status(j).status = "queued"

\* a submitted job whose run has not started: the poll answers queued
C35_Witness ==
    \E j \in issued :
        /\ pc[j] = "scheduled" /\ cancelledAt[j] = ""
        /\ executed[j] = <<>>
        /\ get_status(j) = [code |-> 200, status |-> "queued", progress |-> 0,
                            current_step |-> "queued", results |-> <<>>, error |-> <<>>]

\* C36: provided every call of the run returns or raises in the end, every
\* submitted job that is not deleted reaches status completed or failed: no
\* job stays queued or running for ever.
C36_EventuallyTerminal ==
    \A j \in OneJob :
        (j \in DOMAIN jobs)
            ~> (j \notin DOMAIN jobs \/ jobs[j].status \in {"completed", "failed"})

\* a job that went through all stages with one URL failing in each of the
\* per-URL stages and whose record holds the final status
C36_Witness ==
    \E j \in DOMAIN jobs :
        /\ pc[j] = "done" /\ executed[j] = Nodes
        /\ "raise" \in Range(outs[j].lighthouse)
        /\ "fail" \in Range(outs[j].screenshots)
        /\ jobs[j].status = "completed" /\ jobs[j].progress = 100

\* C37: in every state of the registry a job's status is "completed" exactly
\* when its progress is 100.
C37_CompletedIffProgress100 ==
    \A j \in DOMAIN jobs : (jobs[j].status = "completed") <=> (jobs[j].progress = 100)

\* a finished run whose report raised: failed, progress left at 85
C37_Witness ==
    \E j \in DOMAIN jobs :
        /\ pc[j] = "done"
        /\ outs[j].report = "raise"
        /\ jobs[j].status = "failed"
        /\ jobs[j].progress = 85

\* C38: get_results and download_report answer with data only for a job
\* whose status is "completed" and with an error for a queued, running or
\* failed one; get_status carries the aggregated results only for a
\* completed job.
C38_ResultsOnlyWhenCompleted ==
    \A j \in DOMAIN jobs :
        IF jobs[j].status = "completed"
        THEN /\ get_results(j).code = 200
             /\ get_status(j).results = <<jobs[j].aggregated_metrics>>
             /\ download_report(j).code \in {200, 404}
        ELSE /\ get_results(j).code = 400 /\ get_results(j).body = <<>>
             /\ download_report(j).code = 400 /\ download_report(j).file = <<>>
             /\ get_status(j).results = <<>>

\* a failed job whose record holds aggregated results and recommendations
\* (the report stage raised after a complete analysis): none of it is answered
C38_Witness ==
    \E j \in DOMAIN jobs :
        /\ jobs[j].status = "failed"
        /\ jobs[j].aggregated_metrics # <<>>
        /\ jobs[j].recommendations # <<>>
        /\ get_results(j).code = 400
        /\ download_report(j).detail = "Report not ready"
        /\ get_status(j).results = <<>>

\* C39: for non-negative fcp, lcp, cls and ttfb the performance_score of
\* _calculate_scores lies between 20 and 80, so that a site measured by
\* Lighthouse alone is never rated "Excellent".
C39_LighthouseScoreRange ==
    calc.fn = "_calculate_scores" =>
        /\ 20 * 14400 <= calc.performance_score_14400
        /\ calc.performance_score_14400 <= 80 * 14400
        /\ calc.ret.performance_score \in 20..80
        /\ calc.site["averages"]["avg_performance_score"] = calc.ret.performance_score
        /\ _get_performance_rating(calc.site["averages"]["avg_performance_score"])
              # _get_performance_rating(90)

\* the best page there is (every metric below its first threshold) scores
\* exactly 80 and is rated "Good"
C39_Witness ==
    /\ calc.fn = "_calculate_scores"
    /\ calc.metrics = [fcp |-> 0, lcp |-> 0, cls |-> 0, ttfb |-> 0]
    /\ calc.performance_score_14400 = 80 * 14400
    /\ _get_performance_rating(calc.site["averages"]["avg_performance_score"])
          = _get_performance_rating(75)

====
